---- MODULE Spec2Model ----
(***************************************************************************)
(* Verification model of the affiliate reconciliation backend:             *)
(*   - app/jobs/queue.py              PriorityDelayQueue                   *)
(*   - app/services/trust_scoring.py  apply_trust_event                    *)
(*   - app/utils/circuit_breaker.py   CircuitBreaker                       *)
(*   - app/services/platform_fetcher.py PlatformFetcher.fetch              *)
(*   - app/services/reconciliation_engine.py run_reconciliation            *)
(*   - app/services/alerting.py       maybe_create_alert                   *)
(*   - app/jobs/worker_reconciliation.py ReconciliationWorker              *)
(* Times are integers (seconds); trust scores are integers (hundredths,    *)
(* the resolution of the Numeric(3, 2) column that stores them).           *)
(***************************************************************************)
EXTENDS Integers, Sequences, FiniteSets, TLC

VARIABLES
    now,             \* wall clock (time.time() / datetime.now), seconds
    ready_heap,      \* PriorityDelayQueue._ready_heap
    scheduled_heap,  \* PriorityDelayQueue._scheduled_heap
    seq_counter,     \* PriorityDelayQueue._seq_counter
    deq_last,        \* history: the last dequeue call (queue before, result)
    ts,              \* trust-scoring harness: score, last event and result
    breaker_states,  \* CircuitBreaker._states: platform -> BreakerState
    fx,              \* the fetch() call each caller is in (its local variables)
    fetch_count,     \* fetch() calls started
    bh,              \* history of the breaker calls, per platform
    logs,            \* table reconciliation_logs (committed rows)
    alerts,          \* table alerts (committed rows)
    users,           \* table users: trust_score, accurate_submissions
    posts,           \* table posts: is_reconciled
    platform_reports,\* table platform_reports: number of rows
    db_writer,       \* the session holding the database write lock, or 0
    ws,              \* each worker: its place in _process and its session
    eh,              \* history of the committed reconciliation runs
    cs,              \* classifier harness: the inputs and result of a classify call
    sh,              \* one-session harness: the report and the history of its runs
    shutdown,        \* PriorityDelayQueue._shutdown
    cons,            \* each consumer thread: its dequeue call and what it returned
    enq_last,        \* history: the last enqueue call and how it ended
    rq,              \* RedisQueue: the ready list and the scheduled sorted set
    ps,              \* priority harness: the inputs and result of compute_priority
    affiliate_reports, \* table affiliate_reports: rows the submission endpoints persisted
    last_exceptions  \* worker_reconciliation.LAST_EXCEPTIONS

wvars == <<shutdown, cons, enq_last, rq>>
qvars == <<ready_heap, scheduled_heap, seq_counter, deq_last, shutdown, cons,
           enq_last, rq>>
bvars == <<breaker_states, fx, fetch_count, bh>>
dbvars == <<logs, alerts, users, posts, platform_reports, db_writer>>
evars == <<logs, alerts, users, posts, platform_reports, db_writer, ws, eh>>
avars == <<affiliate_reports, last_exceptions>>
hvars == <<ts, cs, sh, ps, affiliate_reports, last_exceptions>>
vars == <<now, ready_heap, scheduled_heap, seq_counter, deq_last, ts,
          breaker_states, fx, fetch_count, bh,
          logs, alerts, users, posts, platform_reports, db_writer, ws, eh,
          cs, sh, shutdown, cons, enq_last, rq, ps,
          affiliate_reports, last_exceptions>>

None == "None"
NoTime == -1          \* a datetime that is None

Max(a, b) == IF a >= b THEN a ELSE b
Min(a, b) == IF a <= b THEN a ELSE b

(***************************************************************************)
(* Bounds of the model.                                                    *)
(***************************************************************************)
MaxEnqueues == 3      \* enqueue calls in a run of the queue model
MaxDelay == 1         \* largest delay_seconds passed to enqueue
MaxQueueTime == 2     \* the queue model's clock stops here
MaxFetches == 3       \* fetch() calls in a run of the breaker models
BreakerTickStep == 150  \* seconds the breaker models' clock advances per tick
MaxBreakerTime == 300 \* the breaker models' clock stops here
EngineTickStep == 90000 \* seconds the engine model's clock advances per tick
MaxEngineTime == 90000  \* the engine model's clock stops here
MaxProbeFetches == 4   \* fetch() calls in a run of the many-caller breaker model
MaxSerialRuns == 5     \* run_reconciliation calls in a run of the one-session model
SerialTickStep == 86400 \* seconds the one-session model's clock advances per tick
MaxSerialTime == 176400 \* the one-session model's clock stops here
MaxWaitTime == 3       \* the blocking-queue model's clock stops here
MaxWaitEnqueues == 2   \* accepted enqueue calls in a run of the blocking-queue model
MaxTimeout == 2        \* largest timeout passed to dequeue
MaxRedisEnqueues == 3  \* enqueue calls on the Redis queue in a run
CapacityRoom == 2      \* free places of the queue at the start of the capacity model

(***************************************************************************)
(* app/config.py                                                           *)
(***************************************************************************)
PriorityMap == ("high" :> 0) @@ ("normal" :> 5) @@ ("low" :> 10)
max_in_memory == 5000

(***************************************************************************)
(* Trust scoring (hundredths).                                             *)
(***************************************************************************)
min_score == 0
max_score == 100

TrustEvents == {"perfect_match", "minor_discrepancy", "medium_discrepancy",
                "high_discrepancy", "overclaim", "impossible_submission",
                "manual_adjust"}

\* TRUST_SCORING["events"]: manual_adjust has no entry.
EventsCfg == ("perfect_match" :> 1) @@ ("minor_discrepancy" :> -1)
             @@ ("medium_discrepancy" :> -3) @@ ("high_discrepancy" :> -5)
             @@ ("overclaim" :> -10) @@ ("impossible_submission" :> -15)

\* events_cfg.get(event.value, 0.0)
EventDelta(event) == IF event \in DOMAIN EventsCfg THEN EventsCfg[event] ELSE 0

\* A clamp that forgets the lower bound.
ClampScoreNoFloor(score) == Min(score, max_score)

\* max(min_score, min(new_score, max_score))
ClampScore(score) == Max(min_score, Min(score, max_score))

\* apply_trust_event(current, event) -> (new_score, effective_delta)
apply_trust_event(current, event) ==
    LET delta == EventDelta(event)
        new_score == ClampScore(current + delta)
    IN  [new_score |-> new_score, effective_delta |-> new_score - current]

(***************************************************************************)
(* PriorityDelayQueue.  A heap is the set of its entries; heappop returns  *)
(* the least entry of the tuple order (seq is unique, so the order is      *)
(* total).                                                                 *)
(***************************************************************************)
NoItem == [job |-> 0, priority_label |-> None, priority_value |-> 0,
           enqueued_at |-> 0, ready_at |-> 0, seq |-> 0]

\* Order by enqueue sequence alone (priority ignored).
ReadyLessFifo(a, b) == a.seq < b.seq

\* ready heap entries are (priority_value, seq, item)
ReadyLess(a, b) ==
    \/ a.priority_value < b.priority_value
    \/ a.priority_value = b.priority_value /\ a.seq < b.seq

\* scheduled heap entries are (ready_at_ts, priority_value, seq, item)
SchedLess(a, b) ==
    \/ a.ready_at < b.ready_at
    \/ a.ready_at = b.ready_at /\ ReadyLess(a, b)

ReadyTop(h) == CHOOSE x \in h : \A y \in h \ {x} : ReadyLess(x, y)
SchedTop(h) == CHOOSE x \in h : \A y \in h \ {x} : SchedLess(x, y)

\* _promote_scheduled: pop the scheduled heap while its top is due.
RECURSIVE PromoteScheduled(_, _, _)
PromoteScheduled(ready, sched, now_ts) ==
    IF sched # {} /\ SchedTop(sched).ready_at <= now_ts
    THEN PromoteScheduled(ready \cup {SchedTop(sched)},
                          sched \ {SchedTop(sched)}, now_ts)
    ELSE [ready |-> ready, scheduled |-> sched]

\* One heap of everything ordered by priority: its top is returned only if due.
DequeuePopComposite(ready, sched, now_ts) ==
    LET all == ready \cup sched
        top == ReadyTop(all)
    IN  IF all # {} /\ top.ready_at <= now_ts
        THEN [item |-> top, ready |-> ready \ {top}, scheduled |-> sched \ {top}]
        ELSE [item |-> NoItem, ready |-> ready, scheduled |-> sched]

\* dequeue, lines 131-137: promote, then pop the ready heap if it is not empty.
DequeuePop(ready, sched, now_ts) ==
    LET p == PromoteScheduled(ready, sched, now_ts)
    IN  IF p.ready # {}
        THEN [item |-> ReadyTop(p.ready), ready |-> p.ready \ {ReadyTop(p.ready)},
              scheduled |-> p.scheduled]
        ELSE [item |-> NoItem, ready |-> p.ready, scheduled |-> p.scheduled]

\* No dequeue call has returned since the last other step.
NoDequeue == [called |-> FALSE, item |-> NoItem, pre |-> {}, at |-> 0]

depth == Cardinality(ready_heap) + Cardinality(scheduled_heap)

\* enqueue that numbers the item with the counter as it stands
PushItemStaleSeq(q, job, priority, delay_seconds, now_ts) ==
    LET ready_at_ts == now_ts + Max(0, delay_seconds)
        item == [job |-> job, priority_label |-> priority,
                 priority_value |-> PriorityMap[priority],
                 enqueued_at |-> now_ts, ready_at |-> ready_at_ts, seq |-> q.seq]
    IN  IF ready_at_ts <= now_ts
        THEN [ready |-> q.ready \cup {item}, scheduled |-> q.scheduled,
              seq |-> q.seq + 1]
        ELSE [ready |-> q.ready, scheduled |-> q.scheduled \cup {item},
              seq |-> q.seq + 1]

\* enqueue lines 104-118 on a queue q = [ready, scheduled, seq] at time now_ts.
PushItem(q, job, priority, delay_seconds, now_ts) ==
    LET ready_at_ts == now_ts + Max(0, delay_seconds)
        seq == q.seq + 1
        item == [job |-> job, priority_label |-> priority,
                 priority_value |-> PriorityMap[priority],
                 enqueued_at |-> now_ts, ready_at |-> ready_at_ts, seq |-> seq]
    IN  IF ready_at_ts <= now_ts
        THEN [ready |-> q.ready \cup {item}, scheduled |-> q.scheduled, seq |-> seq]
        ELSE [ready |-> q.ready, scheduled |-> q.scheduled \cup {item}, seq |-> seq]

\* enqueue(job, priority=..., delay_seconds=...): the accepted case; a rejected
\* call raises and changes nothing.
QueuePush(job, priority, delay_seconds) ==
    /\ ~shutdown
    /\ depth < max_in_memory
    /\ priority \in DOMAIN PriorityMap
    /\ LET q == PushItem([ready |-> ready_heap, scheduled |-> scheduled_heap,
                          seq |-> seq_counter], job, priority, delay_seconds, now)
       IN  /\ seq_counter' = q.seq
           /\ ready_heap' = q.ready
           /\ scheduled_heap' = q.scheduled

Enqueue(priority, delay_seconds) ==
    /\ seq_counter < MaxEnqueues
    /\ QueuePush(seq_counter + 1, priority, delay_seconds)
    /\ deq_last' = NoDequeue
    /\ UNCHANGED <<now, wvars, hvars, bvars, evars>>

\* dequeue(block=False)
Dequeue ==
    /\ LET r == DequeuePop(ready_heap, scheduled_heap, now)
       IN  /\ ready_heap' = r.ready
           /\ scheduled_heap' = r.scheduled
           /\ deq_last' = [called |-> TRUE, item |-> r.item,
                           pre |-> ready_heap \cup scheduled_heap, at |-> now]
    /\ UNCHANGED <<now, seq_counter, wvars, hvars, bvars, evars>>

QueueTick ==
    /\ now < MaxQueueTime
    /\ now' = now + 1
    /\ deq_last' = NoDequeue
    /\ UNCHANGED <<ready_heap, scheduled_heap, seq_counter, wvars, hvars, bvars,
                   evars>>

(***************************************************************************)
(* PriorityDelayQueue with its errors, shutdown() and blocking dequeue.    *)
(* A consumer holds the lock from the top of the loop of dequeue until it  *)
(* returns or sleeps in self._cv.wait, so that stretch is one step.        *)
(***************************************************************************)
Consumers == {1, 2}

\* priority labels passed to enqueue: two of the map and one that is not
PriorityLabels == {"high", "normal", "urgent"}

\* timeouts passed to dequeue (NoTime: timeout=None)
Timeouts == {NoTime} \cup (0 .. MaxTimeout)

\* A consumer thread outside dequeue, and the fields of a dequeue call: its
\* arguments, where it sleeps (wake_at = NoTime: wait() without timeout),
\* whether a notify reached it, the consumers before it in the condition's
\* deque of waiters, and, in the state that follows its return,
\* what the call returned (before: the heaps when it returned; slept: the
\* call had to wait; at_shutdown: shutdown() was called while it was asleep).
IdleConsumer == [pc |-> "idle", block |-> FALSE, end_time |-> NoTime,
                 wake_at |-> NoTime, notified |-> FALSE, ahead |-> {},
                 returned |-> FALSE, item |-> NoItem, before |-> {},
                 slept |-> FALSE, at_shutdown |-> FALSE]

\* The consumers, what the calls that have returned gave being forgotten.
Forgotten == [c \in Consumers |->
                 IF cons[c].pc = "idle" THEN IdleConsumer ELSE cons[c]]

\* No enqueue call has been made.
NoEnqueue == [called |-> FALSE, error |-> None, priority |-> None,
              delay_seconds |-> 0, depth_before |-> 0]

\* The capacity test with > in place of >=.
enqueue_error_above(shut, n, priority) ==
    IF shut THEN "RuntimeError"
    ELSE IF n > max_in_memory THEN "OverflowError"
    ELSE IF priority \notin DOMAIN PriorityMap THEN "ValueError"
    ELSE None

\* enqueue, lines 98-103: the exception raised, None if the job is accepted
\* (RuntimeError "Queue shutdown", OverflowError "Queue capacity exceeded",
\* ValueError "Unknown priority"); n is len(self).
enqueue_error(shut, n, priority) ==
    IF shut THEN "RuntimeError"
    ELSE IF n >= max_in_memory THEN "OverflowError"
    ELSE IF priority \notin DOMAIN PriorityMap THEN "ValueError"
    ELSE None

\* consumers asleep in self._cv.wait that no notify has reached yet
Waiters == {c \in Consumers : cons[c].pc = "waiting" /\ ~cons[c].notified}

\* the consumers after c leaves the deque of waiters
Without(c) == [d \in Consumers |-> [Forgotten[d] EXCEPT !.ahead = @ \ {c}]]

\* the waiter at the head of the deque
OldestWaiter == CHOOSE c \in Waiters : cons[c].ahead \cap Waiters = {}

\* notify() waking any one of the waiters
NotifyAny ==
    IF Waiters = {} THEN cons' = Forgotten
    ELSE \E c \in Waiters :
            cons' = [Without(c) EXCEPT ![c].notified = TRUE, ![c].ahead = {}]

\* self._cv.notify(): threading.Condition wakes waiters[0], the consumer that
\* has been in the deque longest, if there is one (a waiter whose timeout is
\* up stays in the deque until it has the lock again)
Notify ==
    IF Waiters = {} THEN cons' = Forgotten
    ELSE cons' = [Without(OldestWaiter) EXCEPT ![OldestWaiter].notified = TRUE,
                                               ![OldestWaiter].ahead = {}]

\* enqueue(job, priority=..., delay_seconds=...), lines 96-122
EnqueueCall(job, priority, delay_seconds) ==
    LET err == enqueue_error(shutdown, depth, priority)
        q == PushItem([ready |-> ready_heap, scheduled |-> scheduled_heap,
                       seq |-> seq_counter], job, priority, delay_seconds, now)
    IN  /\ enq_last' = [called |-> TRUE, error |-> err, priority |-> priority,
                        delay_seconds |-> delay_seconds, depth_before |-> depth]
        /\ IF err = None
           THEN /\ seq_counter' = q.seq
                /\ ready_heap' = q.ready
                /\ scheduled_heap' = q.scheduled
                /\ Notify
           ELSE /\ UNCHANGED <<seq_counter, ready_heap, scheduled_heap>>
                /\ cons' = Forgotten

\* a producer calls enqueue on a queue that is nearly full
CapacityEnqueue(priority, delay_seconds) ==
    /\ EnqueueCall(seq_counter + 1, priority, delay_seconds)
    /\ UNCHANGED <<now, deq_last, shutdown, rq, hvars, bvars, evars>>

\* a producer calls enqueue
WaitEnqueue(priority, delay_seconds) ==
    /\ seq_counter < MaxWaitEnqueues
    /\ EnqueueCall(seq_counter + 1, priority, delay_seconds)
    /\ UNCHANGED <<now, deq_last, shutdown, rq, hvars, bvars, evars>>

\* A job of the heaps is due at time t.
HasDue(ready, sched, t) == \E x \in ready \cup sched : x.ready_at <= t

\* A woken consumer that returns at once under shutdown, whatever is queued.
dequeue_loop_quit(ready, sched, shut, block, end_time, t) ==
    LET r == DequeuePop(ready, sched, t)
        remaining == IF end_time = NoTime THEN NoTime ELSE Max(0, end_time - t)
        wait_time == Max(0, SchedTop(r.scheduled).ready_at - t)
    IN  IF shut
        THEN [kind |-> "return", item |-> NoItem, ready |-> ready,
              scheduled |-> sched, wake_at |-> NoTime]
        ELSE IF r.item # NoItem
        THEN [kind |-> "return", item |-> r.item, ready |-> r.ready,
              scheduled |-> r.scheduled, wake_at |-> NoTime]
        ELSE IF ~block \/ (end_time # NoTime /\ remaining = 0)
        THEN [kind |-> "return", item |-> NoItem, ready |-> r.ready,
              scheduled |-> r.scheduled, wake_at |-> NoTime]
        ELSE [kind |-> "wait", item |-> NoItem, ready |-> r.ready,
              scheduled |-> r.scheduled,
              wake_at |-> IF r.scheduled = {}
                          THEN (IF remaining = NoTime THEN NoTime
                                ELSE t + remaining)
                          ELSE IF remaining = NoTime THEN t + wait_time
                          ELSE t + Min(wait_time, remaining)]

\* dequeue, lines 128-142, and _await_next_ready, lines 76-93: one turn of the
\* loop at time t, up to the return (item = NoItem: None) or to the wait on
\* the condition variable, which ends at wake_at or at a notify.
dequeue_loop(ready, sched, shut, block, end_time, t) ==
    LET r == DequeuePop(ready, sched, t)
        remaining == IF end_time = NoTime THEN NoTime ELSE Max(0, end_time - t)
        wait_time == Max(0, SchedTop(r.scheduled).ready_at - t)
    IN  IF shut /\ ready = {} /\ sched = {}
        THEN [kind |-> "return", item |-> NoItem, ready |-> ready,
              scheduled |-> sched, wake_at |-> NoTime]
        ELSE IF r.item # NoItem
        THEN [kind |-> "return", item |-> r.item, ready |-> r.ready,
              scheduled |-> r.scheduled, wake_at |-> NoTime]
        ELSE IF ~block \/ (end_time # NoTime /\ remaining = 0)
        THEN [kind |-> "return", item |-> NoItem, ready |-> r.ready,
              scheduled |-> r.scheduled, wake_at |-> NoTime]
        ELSE [kind |-> "wait", item |-> NoItem, ready |-> r.ready,
              scheduled |-> r.scheduled,
              wake_at |-> IF r.scheduled = {}
                          THEN (IF remaining = NoTime THEN NoTime
                                ELSE t + remaining)
                          ELSE IF remaining = NoTime THEN t + wait_time
                          ELSE t + Min(wait_time, remaining)]

\* Consumer c, whose call is `call`, goes through one turn of the loop.
DequeueTurn(c, call) ==
    \E r \in {dequeue_loop(ready_heap, scheduled_heap, shutdown, call.block,
                           call.end_time, now)} :
        /\ ready_heap' = r.ready
        /\ scheduled_heap' = r.scheduled
        /\ enq_last' = NoEnqueue
        /\ cons' = [Without(c) EXCEPT ![c] =
              IF r.kind = "return"
              THEN [call EXCEPT !.pc = "idle", !.returned = TRUE,
                                !.item = r.item,
                                !.wake_at = NoTime, !.notified = FALSE,
                                !.ahead = {},
                                !.before = ready_heap \cup scheduled_heap]
              ELSE [call EXCEPT !.pc = "waiting", !.wake_at = r.wake_at,
                                !.notified = FALSE, !.slept = TRUE,
                                !.ahead = Waiters \ {c}]]

\* consumer c calls dequeue(block=..., timeout=...)
DequeueCall(c, block, timeout) ==
    /\ cons[c].pc = "idle"
    /\ DequeueTurn(c, [IdleConsumer EXCEPT
                          !.block = block,
                          !.end_time = IF timeout = NoTime THEN NoTime
                                       ELSE now + timeout])
    /\ UNCHANGED <<now, seq_counter, deq_last, shutdown, rq, hvars, bvars,
                   evars>>

\* A wait that only a notify ends.
AwakeByNotify(c) ==
    /\ cons[c].pc = "waiting"
    /\ cons[c].notified

\* The wait of consumer c has ended: a notify reached it or its time is up.
Awake(c) ==
    /\ cons[c].pc = "waiting"
    /\ cons[c].notified \/ (cons[c].wake_at # NoTime /\ cons[c].wake_at <= now)

\* consumer c returns from self._cv.wait and goes round the loop again
DequeueResume(c) ==
    /\ Awake(c)
    /\ DequeueTurn(c, cons[c])
    /\ UNCHANGED <<now, seq_counter, deq_last, shutdown, rq, hvars, bvars,
                   evars>>

\* shutdown(), lines 144-147: the flag and notify_all
QueueShutdown ==
    /\ ~shutdown
    /\ shutdown' = TRUE
    /\ cons' = [c \in Consumers |->
                  IF cons[c].pc = "waiting"
                  THEN [cons[c] EXCEPT !.notified = TRUE, !.ahead = {},
                                       !.at_shutdown = TRUE]
                  ELSE IdleConsumer]
    /\ enq_last' = NoEnqueue
    /\ UNCHANGED <<now, ready_heap, scheduled_heap, seq_counter, deq_last,
                   rq, hvars, bvars, evars>>

\* The clock moves on once every consumer that can run has run.
WaitTick ==
    /\ now < MaxWaitTime
    /\ \A c \in Consumers : ~Awake(c)
    /\ now' = now + 1
    /\ cons' = Forgotten
    /\ enq_last' = NoEnqueue
    /\ UNCHANGED <<ready_heap, scheduled_heap, seq_counter, deq_last, shutdown,
                   rq, hvars, bvars, evars>>

(***************************************************************************)
(* RedisQueue (app/jobs/redis_queue.py), Redis reachable at every call:    *)
(* the list affiliate:ready_queue and the sorted set                       *)
(* affiliate:scheduled_jobs, whose members are the serialized jobs.        *)
(***************************************************************************)
\* No dequeue call has returned since the last other step.
NoRedisDequeue == [called |-> FALSE, item |-> NoItem, ready_before |-> <<>>,
                   scheduled_before |-> {}]

\* RedisQueue() connected to an empty Redis (use_redis: create_queue returned
\* this queue and not a PriorityDelayQueue; enqueues: enqueue calls made)
NewRedis == [use_redis |-> FALSE, ready |-> <<>>, scheduled |-> {},
             shutdown |-> FALSE, enqueues |-> 0, last |-> NoRedisDequeue]

\* _serialize_job: the JSON text, as the tuple of its values
serialize_job(item) ==
    <<item.job, "ReconciliationJob", item.priority_label, item.priority_value,
      item.enqueued_at, item.ready_at, item.seq>>

\* _deserialize_job
deserialize_job(str) ==
    [job |-> str[1], priority_label |-> str[3], priority_value |-> str[4],
     enqueued_at |-> str[5], ready_at |-> str[6], seq |-> str[7]]

\* The orders in which ZRANGEBYSCORE can list the members S: by score, members
\* of equal score in the order of their text, which the model leaves open.
ByScore(S) ==
    {q \in [1 .. Cardinality(S) -> S] :
        /\ \A i, j \in 1 .. Cardinality(S) : i # j => q[i] # q[j]
        /\ \A i, j \in 1 .. Cardinality(S) : i < j => q[i].score <= q[j].score}

\* LPUSH of the members of q, one after the other, on the list
RECURSIVE LPushAll(_, _)
LPushAll(list, q) ==
    IF q = <<>> THEN list
    ELSE LPushAll(<<Head(q).member>> \o list, Tail(q))

\* ZADD: the member gets the score, whether it is new or not
ZAdd(zset, member, score) ==
    {e \in zset : e.member # member} \cup {[member |-> member, score |-> score]}

\* enqueue lines 191-217 with the job stored as ready whatever its delay.
RedisPushNow(q, job, priority, delay_seconds, now_ts) ==
    LET item == [job |-> job, priority_label |-> priority,
                 priority_value |-> PriorityMap[priority],
                 enqueued_at |-> now_ts,
                 ready_at |-> now_ts + Max(0, delay_seconds),
                 seq |-> now_ts * 1000]
    IN  [q EXCEPT !.ready = <<serialize_job(item)>> \o @]

\* enqueue, lines 191-217: the item goes to the list or to the sorted set
RedisPush(q, job, priority, delay_seconds, now_ts) ==
    LET ready_at_ts == now_ts + Max(0, delay_seconds)
        item == [job |-> job, priority_label |-> priority,
                 priority_value |-> PriorityMap[priority],
                 enqueued_at |-> now_ts, ready_at |-> ready_at_ts,
                 seq |-> now_ts * 1000]
    IN  IF ready_at_ts <= now_ts
        THEN [q EXCEPT !.ready = <<serialize_job(item)>> \o @]
        ELSE [q EXCEPT !.scheduled = ZAdd(@, serialize_job(item), ready_at_ts)]

\* enqueue(job, priority=..., delay_seconds=...), lines 181-229, the accepted
\* case; a rejected call raises and changes nothing
RedisEnqueue(job, priority, delay_seconds) ==
    /\ rq.use_redis
    /\ rq.enqueues < MaxRedisEnqueues
    /\ ~rq.shutdown
    /\ priority \in DOMAIN PriorityMap
    /\ rq' = [RedisPush(rq, job, priority, delay_seconds, now)
                 EXCEPT !.enqueues = @ + 1, !.last = NoRedisDequeue]
    /\ UNCHANGED <<now, ready_heap, scheduled_heap, seq_counter, deq_last,
                   shutdown, cons, enq_last, hvars, bvars, evars>>

\* dequeue(block=False), lines 231-287: _promote_scheduled, then LPOP
RedisDequeue ==
    /\ rq.use_redis
    /\ \E jobs \in ByScore({e \in rq.scheduled : e.score <= now}) :
          LET list == LPushAll(rq.ready, jobs)
              left == {e \in rq.scheduled : e.score > now}
          IN  IF rq.shutdown /\ Len(rq.ready) + Cardinality(rq.scheduled) = 0
              THEN rq' = [rq EXCEPT
                            !.last = [called |-> TRUE, item |-> NoItem,
                                      ready_before |-> rq.ready,
                                      scheduled_before |-> rq.scheduled]]
              ELSE rq' = [rq EXCEPT
                            !.scheduled = left,
                            !.ready = IF list = <<>> THEN list ELSE Tail(list),
                            !.last = [called |-> TRUE,
                                      item |-> IF list = <<>> THEN NoItem
                                               ELSE deserialize_job(Head(list)),
                                      ready_before |-> rq.ready,
                                      scheduled_before |-> rq.scheduled]]
    /\ UNCHANGED <<now, ready_heap, scheduled_heap, seq_counter, deq_last,
                   shutdown, cons, enq_last, hvars, bvars, evars>>

(***************************************************************************)
(* Delayed jobs on either queue.  The jobs are numbered so that the number *)
(* of a job tells the delay it was enqueued with.                          *)
(***************************************************************************)
DelayJob(k, delay_seconds) == k * (MaxDelay + 1) + delay_seconds
DelayOf(job) == job % (MaxDelay + 1)

\* a producer enqueues on the in-memory queue
DelayEnqueue(priority, delay_seconds) ==
    /\ ~rq.use_redis
    /\ seq_counter < MaxEnqueues
    /\ QueuePush(DelayJob(seq_counter + 1, delay_seconds), priority,
                 delay_seconds)
    /\ deq_last' = NoDequeue
    /\ UNCHANGED <<now, wvars, hvars, bvars, evars>>

\* a consumer calls dequeue(block=False) on the in-memory queue
DelayDequeue ==
    /\ ~rq.use_redis
    /\ Dequeue

\* a producer enqueues on the Redis queue
DelayRedisEnqueue(priority, delay_seconds) ==
    RedisEnqueue(DelayJob(rq.enqueues + 1, delay_seconds), priority,
                 delay_seconds)

DelayTick ==
    /\ now < MaxQueueTime
    /\ now' = now + 1
    /\ deq_last' = NoDequeue
    /\ rq' = [rq EXCEPT !.last = NoRedisDequeue]
    /\ UNCHANGED <<ready_heap, scheduled_heap, seq_counter, shutdown, cons,
                   enq_last, hvars, bvars, evars>>

QueueInit ==
    /\ ready_heap = {}
    /\ scheduled_heap = {}
    /\ seq_counter = 0
    /\ deq_last = NoDequeue
    /\ shutdown = FALSE
    /\ cons = [c \in Consumers |-> IdleConsumer]
    /\ enq_last = NoEnqueue
    /\ rq = NewRedis

TrustIdle == ts = [score |-> 0, prev |-> 0, event |-> None, delta |-> 0]

(***************************************************************************)
(* Trust-scoring harness: a score in [0, 1] and any sequence of events.    *)
(***************************************************************************)
ApplyTrust(event) ==
    /\ LET r == apply_trust_event(ts.score, event)
       IN  ts' = [score |-> r.new_score, prev |-> ts.score, event |-> event,
                  delta |-> r.effective_delta]
    /\ UNCHANGED <<now, qvars, bvars, evars, cs, sh, ps, avars>>

(***************************************************************************)
(* CircuitBreaker (app/utils/circuit_breaker.py)                           *)
(***************************************************************************)
failure_threshold == 5
open_cooldown_seconds == 300
half_open_probe_count == 3

Platforms == {"tiktok"}
Fetchers == {1, 2}

\* BreakerState()
NewBreakerState == [failures |-> 0, state |-> "CLOSED", opened_at |-> NoTime,
                    half_open_probes |-> 0]

\* The HALF_OPEN branch with the probe limit compared by > instead of >=.
AllowHalfOpenOneMore(st) ==
    IF st.half_open_probes > half_open_probe_count
    THEN [st |-> st, allowed |-> FALSE, reason |-> "half_open_probe_exhausted"]
    ELSE [st |-> [st EXCEPT !.half_open_probes = @ + 1], allowed |-> TRUE,
          reason |-> None]

\* allow_call, lines 37-42: the HALF_OPEN branch.
AllowHalfOpen(st) ==
    IF st.half_open_probes >= half_open_probe_count
    THEN [st |-> st, allowed |-> FALSE, reason |-> "half_open_probe_exhausted"]
    ELSE [st |-> [st EXCEPT !.half_open_probes = @ + 1], allowed |-> TRUE,
          reason |-> None]

\* allow_call(platform) at time t: the new state and the returned pair.
AllowCall(st, t) ==
    IF st.state = "CLOSED"
    THEN [st |-> st, allowed |-> TRUE, reason |-> None]
    ELSE IF st.state = "OPEN"
    THEN IF st.opened_at # NoTime /\ t - st.opened_at >= open_cooldown_seconds
         THEN AllowHalfOpen([st EXCEPT !.state = "HALF_OPEN", !.half_open_probes = 0])
         ELSE [st |-> st, allowed |-> FALSE, reason |-> "circuit_open"]
    ELSE AllowHalfOpen(st)

\* record_success(platform)
RecordSuccess(st) ==
    IF st.state \in {"OPEN", "HALF_OPEN"}
    THEN [failures |-> 0, state |-> "CLOSED", opened_at |-> NoTime,
          half_open_probes |-> 0]
    ELSE [st EXCEPT !.failures = 0]

\* record_failure, lines 56-62: the transition after the increment.
FailureTransition(st, t) ==
    IF st.state = "CLOSED" /\ st.failures >= failure_threshold
    THEN [st EXCEPT !.state = "OPEN", !.opened_at = t]
    ELSE IF st.state = "HALF_OPEN"
    THEN [st EXCEPT !.state = "OPEN", !.opened_at = t]
    ELSE st

\* record_failure(platform) at time t
RecordFailure(st, t) == FailureTransition([st EXCEPT !.failures = @ + 1], t)

(***************************************************************************)
(* PlatformFetcher.fetch (app/services/platform_fetcher.py)                *)
(***************************************************************************)
max_attempts == 3

\* what _call_adapter returns as error code (None: a dict of metrics)
AdapterCodes == {None, "rate_limited", "auth_error", "fetch_error"}

MetricNames == {"views", "clicks", "conversions"}

\* A fetch() call: its local variables, the FetchOutcome it returned (result,
\* partial_missing) and its history (adapter invocations, breaker outcomes
\* recorded, an invocation made after a success or an auth error).
IdleFetch == [pc |-> "idle", platform |-> None, attempts |-> 0,
              last_error_code |-> None, rate_limited |-> FALSE, tmp |-> 0,
              result |-> None, partial_missing |-> {},
              calls |-> 0, records |-> 0, after_end |-> FALSE]

NoHistory == [tripped_at |-> NoTime, allow_called |-> FALSE, allowed |-> FALSE,
              reason |-> None, allow_at |-> NoTime, consec |-> 0, admitted |-> 0,
              reopened_at |-> NoTime]

BreakerInit ==
    /\ breaker_states = [p \in Platforms |-> NewBreakerState]
    /\ fx = [f \in Fetchers |-> IdleFetch]
    /\ fetch_count = 0
    /\ bh = [p \in Platforms |-> NoHistory]

\* History: an allow_call returned (allowed, reason).
HistAllow(h, allowed, reason) ==
    [h EXCEPT !.allow_called = TRUE, !.allowed = allowed, !.reason = reason,
              !.allow_at = now]

\* History: allow_call moved the breaker from OPEN to HALF_OPEN.
HistEnterHalfOpen(h) == [h EXCEPT !.admitted = 0, !.reopened_at = NoTime]

\* History: allow_call admitted a probe in HALF_OPEN.
HistAdmit(h) == [h EXCEPT !.admitted = @ + 1]

\* History of an allow_call that took the breaker from `old` to `new`.
AfterAllow(h, old, new, allowed, reason) ==
    LET h1 == IF old.state = "OPEN" /\ new.state = "HALF_OPEN"
              THEN HistEnterHalfOpen(h) ELSE h
        h2 == IF new.state = "HALF_OPEN" /\ allowed THEN HistAdmit(h1) ELSE h1
    IN  HistAllow(h2, allowed, reason)

\* History: record_failure incremented the failure count.
HistFailure(h) == [h EXCEPT !.consec = @ + 1]

\* History: record_failure took the breaker from `old` to `new`.
HistTrip(h, old, new) ==
    IF old.state = "CLOSED" /\ new.state = "OPEN"
    THEN [h EXCEPT !.tripped_at = now, !.allow_called = FALSE,
                   !.allowed = FALSE, !.reason = None, !.allow_at = NoTime]
    ELSE h

\* History: record_failure took the breaker from HALF_OPEN back to OPEN.
HistReopen(h, old, new) ==
    IF old.state = "HALF_OPEN" /\ new.state = "OPEN"
    THEN [h EXCEPT !.reopened_at = now]
    ELSE h

\* History of a completed record_failure.
AfterFailure(h, old, new) ==
    HistReopen(HistTrip(HistFailure(h), old, new), old, new)

\* History of a completed record_success.
AfterSuccess(h) == [h EXCEPT !.consec = 0, !.admitted = 0]

\* A fetch that goes on to the adapter although the breaker denied the call.
FetchCallIgnoringDenial(f, p) ==
    LET r == AllowCall(breaker_states[p], now)
    IN  /\ breaker_states' = [breaker_states EXCEPT ![p] = r.st]
        /\ bh' = [bh EXCEPT ![p] = AfterAllow(@, breaker_states[p], r.st,
                                              r.allowed, r.reason)]
        /\ fx' = [fx EXCEPT ![f] =
                     [IdleFetch EXCEPT !.pc = "loop", !.platform = p,
                                       !.result = IF r.allowed THEN None
                                                  ELSE "denied"]]

\* fetch, lines 68-87: ask the breaker; a denial returns at once.
FetchCall(f, p) ==
    LET r == AllowCall(breaker_states[p], now)
    IN  /\ breaker_states' = [breaker_states EXCEPT ![p] = r.st]
        /\ bh' = [bh EXCEPT ![p] = AfterAllow(@, breaker_states[p], r.st,
                                              r.allowed, r.reason)]
        /\ fx' = [fx EXCEPT ![f] =
                     IF r.allowed
                     THEN [IdleFetch EXCEPT !.pc = "loop", !.platform = p]
                     ELSE [IdleFetch EXCEPT !.platform = p,
                                            !.last_error_code = r.reason,
                                            !.result = "denied",
                                            !.partial_missing = MetricNames]]

\* a caller starts a fetch()
FetchBegin(f, p) ==
    /\ fx[f].pc = "idle"
    /\ fetch_count < MaxFetches
    /\ fetch_count' = fetch_count + 1
    /\ FetchCall(f, p)
    /\ UNCHANGED <<now, qvars, hvars, evars>>

\* The retry loop with an auth error retried like any other error.
FetchTurnRetryingAuth(f, code) ==
    LET p == fx[f].platform
        attempts == fx[f].attempts + 1
        st == breaker_states[p]
        after_end == fx[f].after_end \/ fx[f].last_error_code = "auth_error"
    IN  IF code = None
        THEN /\ breaker_states' = [breaker_states EXCEPT ![p] = RecordSuccess(st)]
             /\ bh' = [bh EXCEPT ![p] = AfterSuccess(@)]
             /\ fx' = [fx EXCEPT ![f] = [@ EXCEPT !.pc = "idle",
                                                  !.attempts = attempts,
                                                  !.result = "success",
                                                  !.calls = @ + 1,
                                                  !.records = @ + 1,
                                                  !.after_end = after_end]]
        ELSE /\ breaker_states' = [breaker_states EXCEPT ![p] = RecordFailure(st, now)]
             /\ bh' = [bh EXCEPT ![p] = AfterFailure(@, st, RecordFailure(st, now))]
             /\ fx' = [fx EXCEPT ![f] =
                         [@ EXCEPT !.attempts = attempts,
                                   !.last_error_code = code,
                                   !.rate_limited = @ \/ code = "rate_limited",
                                   !.calls = @ + 1,
                                   !.records = @ + 1,
                                   !.after_end = after_end,
                                   !.result = IF attempts >= max_attempts
                                              THEN "failure" ELSE None,
                                   !.partial_missing =
                                       IF attempts >= max_attempts
                                       THEN MetricNames ELSE {},
                                   !.pc = IF attempts >= max_attempts
                                          THEN "idle" ELSE "loop"]]

\* fetch, lines 89-141: one turn of the retry loop, the adapter returning
\* `code` (None: a dict, taken to hold the three metrics).
FetchTurn(f, code) ==
    LET p == fx[f].platform
        attempts == fx[f].attempts + 1
        st == breaker_states[p]
        after_end == fx[f].after_end \/ fx[f].last_error_code = "auth_error"
        ends == code = "auth_error" \/ attempts >= max_attempts
    IN  IF code = None
        THEN /\ breaker_states' = [breaker_states EXCEPT ![p] = RecordSuccess(st)]
             /\ bh' = [bh EXCEPT ![p] = AfterSuccess(@)]
             /\ fx' = [fx EXCEPT ![f] = [@ EXCEPT !.pc = "idle",
                                                  !.attempts = attempts,
                                                  !.result = "success",
                                                  !.calls = @ + 1,
                                                  !.records = @ + 1,
                                                  !.after_end = after_end]]
        ELSE /\ breaker_states' = [breaker_states EXCEPT ![p] = RecordFailure(st, now)]
             /\ bh' = [bh EXCEPT ![p] = AfterFailure(@, st, RecordFailure(st, now))]
             /\ fx' = [fx EXCEPT ![f] =
                         [@ EXCEPT !.attempts = attempts,
                                   !.last_error_code = code,
                                   !.rate_limited = @ \/ code = "rate_limited",
                                   !.calls = @ + 1,
                                   !.records = @ + 1,
                                   !.after_end = after_end,
                                   !.result = IF ends THEN "failure" ELSE None,
                                   !.partial_missing =
                                       IF ends THEN MetricNames ELSE {},
                                   !.pc = IF ends THEN "idle" ELSE "loop"]]

\* a caller inside fetch() goes through one turn of the loop
FetchAttempt(f, code) ==
    /\ fx[f].pc = "loop"
    /\ FetchTurn(f, code)
    /\ UNCHANGED <<now, fetch_count, qvars, hvars, evars>>

\* callers of fetch() in the many-caller model: one more than the breaker
\* admits as probes
ProbeFetchers == 1 .. half_open_probe_count + 1

\* what the adapter does in the many-caller model: a dict or an exception
ProbeCodes == {None, "fetch_error"}

\* a caller of the many-caller model starts a fetch(); callers are alike, so
\* the one that starts is the first that is free
ProbeBegin(f, p) ==
    /\ fx[f].pc = "idle"
    /\ \A g \in ProbeFetchers : g < f => fx[g].pc # "idle"
    /\ fetch_count < MaxProbeFetches
    /\ fetch_count' = fetch_count + 1
    /\ FetchCall(f, p)
    /\ UNCHANGED <<now, qvars, hvars, evars>>

BreakerTick ==
    /\ now < MaxBreakerTime
    /\ now' = now + BreakerTickStep
    /\ UNCHANGED <<qvars, hvars, bvars, evars>>

(***************************************************************************)
(* Pure helpers of the reconciliation engine.  A ratio is a pair [n, d]    *)
(* with d > 0; thresholds are percents.                                    *)
(***************************************************************************)
base_tolerance_pct == 5
low_max_pct == 10
medium_max_pct == 20
overclaim_threshold_pct == 20
overclaim_critical_pct == 50
growth_per_hour_pct == 10
growth_cap_hours == 24

reduced_frequency_threshold == 75
increased_monitoring_threshold == 50
manual_review_threshold == 25

initial_delay_minutes == 30
missing_max_attempts == 5
window_hours == 24
max_additional_attempts == 1
incomplete_delay_minutes == 15

NoMetric == -1        \* a platform metric that is None
NoData == <<NoMetric, NoMetric, NoMetric>>

\* the metric names in the order the code walks them
MetricSeq == <<"views", "clicks", "conversions">>

\* [k for k in ("views", "clicks", "conversions") if data.get(k) is None]
MissingNames(data) ==
    LET F[i \in 0..3] ==
            IF i = 0 THEN <<>>
            ELSE IF data[i] = NoMetric THEN Append(F[i - 1], MetricSeq[i])
            ELSE F[i - 1]
    IN  F[3]

Abs(x) == IF x < 0 THEN -x ELSE x

\* int(round(n / d)) for n >= 0, d > 0: Python rounds halves to even.
RoundHalfEven(n, d) ==
    LET q == n \div d
        r == n % d
    IN  IF 2 * r < d THEN q
        ELSE IF 2 * r > d THEN q + 1
        ELSE IF q % 2 = 0 THEN q ELSE q + 1

\* utils/metrics.py pct_diff
pct_diff(affiliate_value, platform_value) ==
    IF platform_value = 0 /\ affiliate_value = 0 THEN [n |-> 0, d |-> 1]
    ELSE IF platform_value = 0 THEN [n |-> 1, d |-> 1]
    ELSE [n |-> Abs(affiliate_value - platform_value), d |-> platform_value]

\* A growth allowance that is never applied.
apply_growth_allowance_none(platform_value, elapsed_seconds) == platform_value

\* utils/metrics.py apply_growth_allowance, the elapsed time in seconds
apply_growth_allowance(platform_value, elapsed_seconds) ==
    LET secs == Min(Max(elapsed_seconds, 0), growth_cap_hours * 3600)
    IN  RoundHalfEven(platform_value * (360000 + growth_per_hour_pct * secs), 360000)

\* A threshold test that leaves the threshold itself out.
RatioGt(x, pct) == x.n * 100 > pct * x.d

\* diff_pct >= threshold
RatioGe(x, pct) == x.n * 100 >= pct * x.d

\* A tier test that leaves the upper bound itself out.
RatioLt(x, pct) == x.n * 100 < pct * x.d

\* max_diff <= threshold
RatioLe(x, pct) == x.n * 100 <= pct * x.d
RatioLess(x, y) == x.n * y.d < y.n * x.d

\* A partial-data test that takes any provided metric for full data.
data_path_any(provided_metrics) ==
    IF provided_metrics = 0 THEN "missing" ELSE "full"

\* classify lines 111-120: the branch taken for the number of provided metrics
data_path(provided_metrics) ==
    IF provided_metrics = 0 THEN "missing"
    ELSE IF provided_metrics < 3 THEN "incomplete"
    ELSE "full"

\* discrepancy_classifier.classify: claimed and platform are triples
\* <<views, clicks, conversions>>, partial_missing is the list of names the
\* caller passes (empty for None).
classify(claimed, platform, elapsed_seconds, partial_missing) ==
    LET present == {i \in 1..3 : platform[i] # NoMetric}
        missing == IF present = {} THEN MetricSeq
                   ELSE partial_missing \o MissingNames(platform)
        provided_metrics == Cardinality(present)
        adj == [i \in 1..3 |-> IF i \in present
                               THEN apply_growth_allowance(platform[i], elapsed_seconds)
                               ELSE NoMetric]
        disc == [i \in 1..3 |-> claimed[i] - (IF i \in present THEN adj[i] ELSE 0)]
        diff == [i \in present |-> pct_diff(claimed[i], adj[i])]
        max_diff == CHOOSE x \in {diff[i] : i \in present} :
                        \A i \in present : ~RatioLess(x, diff[i])
        overclaim_condition ==
            \E i \in present : disc[i] > 0 /\ RatioGe(diff[i], overclaim_threshold_pct)
        critical_condition ==
            \E i \in present : disc[i] > 0 /\ RatioGe(diff[i], overclaim_critical_pct)
        res(status, trust_event, level) ==
            [status |-> status, trust_event |-> trust_event,
             discrepancy_level |-> level, provided |-> provided_metrics,
             missing_fields |-> missing,
             confidence_ratio |-> [n |-> provided_metrics, d |-> 3]]
    IN  IF data_path(provided_metrics) = "missing"
        THEN res("MISSING_PLATFORM_DATA", None, None)
        ELSE IF data_path(provided_metrics) = "incomplete"
        THEN res("INCOMPLETE_PLATFORM_DATA", None, None)
        ELSE IF overclaim_condition
        THEN res("AFFILIATE_OVERCLAIMED", "overclaim",
                 IF critical_condition THEN "CRITICAL" ELSE "HIGH")
        ELSE IF RatioLe(max_diff, base_tolerance_pct)
        THEN res("MATCHED", "perfect_match", None)
        ELSE IF RatioLe(max_diff, low_max_pct)
        THEN res("DISCREPANCY_LOW", "minor_discrepancy", "LOW")
        ELSE IF RatioLe(max_diff, medium_max_pct)
        THEN res("DISCREPANCY_MEDIUM", "medium_discrepancy", "MEDIUM")
        ELSE res("DISCREPANCY_HIGH", "high_discrepancy", "HIGH")

\* A retry policy that forgets the submission window.
schedule_retry_no_window(status, attempt_count, submitted_at, t) ==
    IF status = "MISSING_PLATFORM_DATA"
    THEN IF attempt_count >= missing_max_attempts THEN NoTime
         ELSE t + initial_delay_minutes * 60 * Max(1, attempt_count)
    ELSE IF status = "INCOMPLETE_PLATFORM_DATA"
    THEN IF attempt_count <= 1 + max_additional_attempts
         THEN t + incomplete_delay_minutes * 60
         ELSE NoTime
    ELSE NoTime

\* _schedule_retry without the attempt limit of the missing-data policy.
schedule_retry_unlimited(status, attempt_count, submitted_at, t) ==
    IF status = "MISSING_PLATFORM_DATA"
    THEN IF t - submitted_at > window_hours * 3600 THEN NoTime
         ELSE t + initial_delay_minutes * 60 * Max(1, attempt_count)
    ELSE IF status = "INCOMPLETE_PLATFORM_DATA"
    THEN IF attempt_count <= 1 + max_additional_attempts
         THEN t + incomplete_delay_minutes * 60
         ELSE NoTime
    ELSE NoTime

\* reconciliation_engine._schedule_retry
schedule_retry(status, attempt_count, submitted_at, t) ==
    IF status = "MISSING_PLATFORM_DATA"
    THEN IF attempt_count >= missing_max_attempts THEN NoTime
         ELSE IF t - submitted_at > window_hours * 3600 THEN NoTime
         ELSE t + initial_delay_minutes * 60 * Max(1, attempt_count)
    ELSE IF status = "INCOMPLETE_PLATFORM_DATA"
    THEN IF attempt_count <= 1 + max_additional_attempts
         THEN t + incomplete_delay_minutes * 60
         ELSE NoTime
    ELSE NoTime

\* trust_scoring.bucket_for_priority
bucket_for_priority(score) ==
    IF score >= reduced_frequency_threshold THEN "high_trust"
    ELSE IF score >= increased_monitoring_threshold THEN "normal"
    ELSE IF score >= manual_review_threshold THEN "low_trust"
    ELSE "critical"

\* utils/priority.py
PRIORITY_MAP == ("critical" :> "high") @@ ("low_trust" :> "high")
                @@ ("normal" :> "normal") @@ ("high_trust" :> "low")

\* The label of the bucket alone, the flags ignored.
compute_priority_of_bucket(trust_score, has_suspicion_flags) ==
    PRIORITY_MAP[bucket_for_priority(trust_score)]

\* compute_priority(trust_score, has_suspicion_flags)
compute_priority(trust_score, has_suspicion_flags) ==
    LET label == PRIORITY_MAP[bucket_for_priority(trust_score)]
    IN  IF has_suspicion_flags /\ label # "high" THEN "high" ELSE label

\* PlatformFetcher.fetch lines 89-141 run to its end at time t, the adapter
\* returning `ret` on every call: the breaker state left and the outcome.
RECURSIVE FetchLoop(_, _, _, _)
FetchLoop(st, ret, attempts, t) ==
    IF ret.code = None
    THEN [st |-> RecordSuccess(st), success |-> TRUE, metrics |-> ret.data,
          partial_missing |-> MissingNames(ret.data),
          attempts |-> attempts + 1, error_code |-> None, rate_limited |-> FALSE]
    ELSE IF ret.code = "auth_error" \/ attempts + 1 >= max_attempts
    THEN [st |-> RecordFailure(st, t), success |-> FALSE, metrics |-> NoData,
          partial_missing |-> MetricSeq,
          attempts |-> attempts + 1, error_code |-> ret.code,
          rate_limited |-> ret.code = "rate_limited"]
    ELSE FetchLoop(RecordFailure(st, t), ret, attempts + 1, t)

\* PlatformFetcher.fetch, whole call.
FetchOutcome(st, ret, t) ==
    LET a == AllowCall(st, t)
    IN  IF ~a.allowed
        THEN [st |-> a.st, success |-> FALSE, metrics |-> NoData,
              partial_missing |-> MetricSeq, attempts |-> 0,
              error_code |-> a.reason, rate_limited |-> FALSE]
        ELSE FetchLoop(a.st, ret, 0, t)

(***************************************************************************)
(* The same fetch() with the breaker calls at the grain of their reads and *)
(* writes of the shared BreakerState: CircuitBreaker holds no lock, so     *)
(* callers in different threads interleave between them.                   *)
(***************************************************************************)
\* fetch line 68 / allow_call lines 27-36: read the state; CLOSED allows,
\* OPEN denies or moves to HALF_OPEN, HALF_OPEN goes on to the probe check.
RaceAllowEnter(f, p) ==
    /\ fx[f].pc = "idle"
    /\ fetch_count < MaxFetches
    /\ fetch_count' = fetch_count + 1
    /\ LET st == breaker_states[p]
           elapsed == st.opened_at # NoTime
                      /\ now - st.opened_at >= open_cooldown_seconds
       IN  CASE st.state = "CLOSED" ->
                  /\ fx' = [fx EXCEPT ![f] = [IdleFetch EXCEPT !.pc = "loop",
                                                               !.platform = p]]
                  /\ bh' = [bh EXCEPT ![p] = HistAllow(@, TRUE, None)]
                  /\ UNCHANGED breaker_states
             [] st.state = "OPEN" /\ elapsed ->
                  /\ breaker_states' = [breaker_states EXCEPT ![p] =
                        [st EXCEPT !.state = "HALF_OPEN", !.half_open_probes = 0]]
                  /\ fx' = [fx EXCEPT ![f] = [IdleFetch EXCEPT !.pc = "ac_check",
                                                               !.platform = p]]
                  /\ bh' = [bh EXCEPT ![p] = HistEnterHalfOpen(@)]
             [] st.state = "OPEN" /\ ~elapsed ->
                  /\ fx' = [fx EXCEPT ![f] = [IdleFetch EXCEPT !.platform = p,
                                              !.last_error_code = "circuit_open",
                                              !.result = "denied",
                                              !.partial_missing = MetricNames]]
                  /\ bh' = [bh EXCEPT ![p] = HistAllow(@, FALSE, "circuit_open")]
                  /\ UNCHANGED breaker_states
             [] st.state = "HALF_OPEN" ->
                  /\ fx' = [fx EXCEPT ![f] = [IdleFetch EXCEPT !.pc = "ac_check",
                                                               !.platform = p]]
                  /\ UNCHANGED <<breaker_states, bh>>
    /\ UNCHANGED <<now, qvars, hvars, evars>>

\* allow_call lines 39-40: compare half_open_probes with the limit.
RaceProbeCheck(f) ==
    /\ fx[f].pc = "ac_check"
    /\ LET p == fx[f].platform
       IN  IF breaker_states[p].half_open_probes >= half_open_probe_count
           THEN /\ fx' = [fx EXCEPT ![f] = [@ EXCEPT !.pc = "idle",
                               !.last_error_code = "half_open_probe_exhausted",
                               !.result = "denied",
                               !.partial_missing = MetricNames]]
                /\ bh' = [bh EXCEPT ![p] =
                               HistAllow(@, FALSE, "half_open_probe_exhausted")]
           ELSE /\ fx' = [fx EXCEPT ![f] = [@ EXCEPT !.pc = "ac_read"]]
                /\ UNCHANGED bh
    /\ UNCHANGED <<now, breaker_states, fetch_count, qvars, hvars, evars>>

\* allow_call line 41, half_open_probes += 1: the read.
RaceProbeRead(f) ==
    /\ fx[f].pc = "ac_read"
    /\ fx' = [fx EXCEPT ![f] = [@ EXCEPT !.pc = "ac_write",
                    !.tmp = breaker_states[fx[f].platform].half_open_probes]]
    /\ UNCHANGED <<now, breaker_states, fetch_count, bh, qvars, hvars, evars>>

\* allow_call lines 41-42, half_open_probes += 1: the write; return True.
RaceProbeWrite(f) ==
    /\ fx[f].pc = "ac_write"
    /\ LET p == fx[f].platform
       IN  /\ breaker_states' = [breaker_states EXCEPT
                                   ![p].half_open_probes = fx[f].tmp + 1]
           /\ bh' = [bh EXCEPT ![p] = HistAllow(HistAdmit(@), TRUE, None)]
    /\ fx' = [fx EXCEPT ![f] = [@ EXCEPT !.pc = "loop", !.tmp = 0]]
    /\ UNCHANGED <<now, fetch_count, qvars, hvars, evars>>

\* fetch lines 89-116: the adapter returns `code`; a success is recorded, a
\* failure enters record_failure (line 55, failures += 1: the read).
RaceAdapter(f, code) ==
    /\ fx[f].pc = "loop"
    /\ LET p == fx[f].platform
           attempts == fx[f].attempts + 1
           st == breaker_states[p]
       IN  IF code = None
           THEN /\ breaker_states' = [breaker_states EXCEPT ![p] = RecordSuccess(st)]
                /\ bh' = [bh EXCEPT ![p] = AfterSuccess(@)]
                /\ fx' = [fx EXCEPT ![f] = [@ EXCEPT !.pc = "idle",
                                                     !.attempts = attempts,
                                                     !.result = "success",
                                                     !.calls = @ + 1,
                                                     !.records = @ + 1]]
           ELSE /\ fx' = [fx EXCEPT ![f] =
                            [@ EXCEPT !.attempts = attempts,
                                      !.last_error_code = code,
                                      !.rate_limited = @ \/ code = "rate_limited",
                                      !.tmp = st.failures,
                                      !.calls = @ + 1,
                                      !.pc = "rf_write"]]
                /\ UNCHANGED <<breaker_states, bh>>
    /\ UNCHANGED <<now, fetch_count, qvars, hvars, evars>>

\* record_failure line 55, failures += 1: the write.
RaceFailWrite(f) ==
    /\ fx[f].pc = "rf_write"
    /\ LET p == fx[f].platform
       IN  /\ breaker_states' = [breaker_states EXCEPT ![p].failures = fx[f].tmp + 1]
           /\ bh' = [bh EXCEPT ![p] = HistFailure(@)]
    /\ fx' = [fx EXCEPT ![f] = [@ EXCEPT !.pc = "rf_check", !.tmp = 0]]
    /\ UNCHANGED <<now, fetch_count, qvars, hvars, evars>>

\* record_failure lines 56-62, then fetch lines 117-131: break or loop.
RaceFailCheck(f) ==
    /\ fx[f].pc = "rf_check"
    /\ LET p == fx[f].platform
           st == breaker_states[p]
       IN  /\ breaker_states' = [breaker_states EXCEPT ![p] = FailureTransition(st, now)]
           /\ bh' = [bh EXCEPT ![p] = HistTrip(@, st, FailureTransition(st, now))]
    /\ LET ends == fx[f].last_error_code = "auth_error"
                   \/ fx[f].attempts >= max_attempts
       IN  fx' = [fx EXCEPT ![f] =
                    [@ EXCEPT !.records = @ + 1,
                              !.result = IF ends THEN "failure" ELSE None,
                              !.partial_missing = IF ends THEN MetricNames ELSE {},
                              !.pc = IF ends THEN "idle" ELSE "loop"]]
    /\ UNCHANGED <<now, fetch_count, qvars, hvars, evars>>

(***************************************************************************)
(* Database, reconciliation worker and engine.                             *)
(*                                                                         *)
(* Each worker runs _process with its own session (autoflush off): a row   *)
(* is read when first accessed and kept; writes reach the database at a    *)
(* flush and become visible to other sessions at the commit.  The default  *)
(* database is SQLite: the first flush of a session takes the database     *)
(* write lock, held until its commit or rollback.                          *)
(***************************************************************************)
default_trust_score == 50

Workers == {1, 2}
Reports == {1, 2}
Posts == {1}
Users == {1}

\* rows of affiliate_reports and posts, written by the submission endpoints
ReportRow == [r \in Reports |-> [post_id |-> 1, claimed |-> <<100, 10, 1>>,
                                 submitted_at |-> 0, suspicion_flags |-> FALSE]]
PostRow == [p \in Posts |-> [user_id |-> 1, platform |-> "tiktok"]]

\* what the platform adapter returns during one fetch
AdapterReturns ==
    { [code |-> "fetch_error", data |-> NoData],
      [code |-> None, data |-> <<100, 10, 1>>],
      [code |-> None, data |-> <<50, 10, 1>>],
      [code |-> None, data |-> <<100, NoMetric, NoMetric>>] }

terminal_statuses == {"MATCHED", "AFFILIATE_OVERCLAIMED", "DISCREPANCY_HIGH"}
repeat_overclaim_window_hours == 6

NoLog == [id |-> 0, affiliate_report_id |-> 0, status |-> None,
          attempt_count |-> 0, last_attempt_at |-> NoTime,
          scheduled_retry_at |-> NoTime, discrepancy_level |-> None,
          trust_delta |-> 0, error_code |-> None, rate_limited |-> FALSE,
          missing_fields |-> <<>>]

NoAlert == [reconciliation_log_id |-> 0, user_id |-> 0, platform_id |-> None,
            alert_type |-> None, category |-> None, severity |-> None]

NoClass == [status |-> None, trust_event |-> None, discrepancy_level |-> None,
            provided |-> 0, missing_fields |-> <<>>,
            confidence_ratio |-> [n |-> 0, d |-> 3]]

\* what _process keeps of the summary a run returned
NoResult == [report |-> 0, retry_at |-> NoTime]

\* the latest attempt committed on a post
NoAttempt == [status |-> None, retry_at |-> NoTime]

IdleWorker == [pc |-> "idle", report |-> 0, started |-> 0, trust |-> 0,
               accurate |-> 0, expired |-> FALSE, log |-> NoLog,
               log_new |-> FALSE, raced |-> FALSE, cls |-> NoClass,
               new_trust |-> 0, trust_delta |-> 0, has_metrics |-> FALSE,
               error_code |-> None, rate_limited |-> FALSE,
               alert |-> NoAlert, last |-> NoResult]

EngineInit ==
    /\ logs = {}
    /\ alerts = {}
    /\ users = [u \in Users |-> [trust_score |-> default_trust_score,
                                 accurate_submissions |-> 0]]
    /\ posts = [p \in Posts |-> [is_reconciled |-> FALSE]]
    /\ platform_reports = 0
    /\ db_writer = 0
    /\ ws = [w \in Workers |-> IdleWorker]
    /\ eh = [commits |-> 0, last |-> [p \in Posts |-> NoAttempt]]

\* `x or 0.5` on a trust score
TrustOr(x) == IF x = 0 THEN default_trust_score ELSE x

\* next value of an autoincrement primary key
NewId(rows) == 1 + Cardinality(rows)

LogsOf(r) == {l \in logs : l.affiliate_report_id = r}

UniqueConflictOff(rows, r) == FALSE

\* reconciliation_logs.affiliate_report_id is unique: an INSERT for report r
\* fails with IntegrityError when a row for r exists.
UniqueConflict(rows, r) == \E l \in rows : l.affiliate_report_id = r

\* enqueue_for_report (endpoints/reconciliation.py lines 53-59) for each
\* report of the sequence rs, in order.
RECURSIVE EnqueueReports(_, _)
EnqueueReports(q, rs) ==
    IF rs = <<>> THEN q
    ELSE LET r == Head(rs)
             u == PostRow[ReportRow[r].post_id].user_id
             priority_label == compute_priority(TrustOr(users[u].trust_score),
                                                ReportRow[r].suspicion_flags)
         IN  EnqueueReports(PushItem(q, r, priority_label, 0, now), Tail(rs))

RECURSIVE SortedSeq(_)
SortedSeq(S) ==
    IF S = {} THEN <<>>
    ELSE LET m == CHOOSE x \in S : \A y \in S : x <= y
         IN  <<m>> \o SortedSeq(S \ {m})

TriggerEnqueue(rs) ==
    /\ rs # <<>>
    /\ seq_counter + Len(rs) <= MaxEnqueues
    /\ depth + Len(rs) <= max_in_memory
    /\ LET q == EnqueueReports([ready |-> ready_heap, scheduled |-> scheduled_heap,
                                seq |-> seq_counter], rs)
       IN  /\ ready_heap' = q.ready
           /\ scheduled_heap' = q.scheduled
           /\ seq_counter' = q.seq
    /\ UNCHANGED <<now, deq_last, wvars, hvars, bvars, evars>>

\* POST /reconciliation/run with post_id: the latest report of the post.
TriggerPost(p, force_reprocess) ==
    LET mine == {r \in Reports : ReportRow[r].post_id = p}
        latest == CHOOSE r \in mine : \A o \in mine :
                     \/ ReportRow[o].submitted_at < ReportRow[r].submitted_at
                     \/ ReportRow[o].submitted_at = ReportRow[r].submitted_at /\ o <= r
    IN  /\ ~(LogsOf(latest) # {} /\ ~force_reprocess)
        /\ TriggerEnqueue(<<latest>>)

\* POST /reconciliation/run without post_id: every report lacking a log, or
\* every report when force_reprocess.
TriggerBulk(force_reprocess) ==
    LET reports == IF force_reprocess THEN Reports
                   ELSE {r \in Reports : LogsOf(r) = {}}
    IN  /\ reports # {}
        /\ TriggerEnqueue(SortedSeq(reports))

\* _loop lines 59-65, _process lines 71-74, run_reconciliation lines 96-103
\* and _ensure_log line 48: take a job, open a session, read the report, its
\* post, the user and the report's log.
WorkerDequeue(w) ==
    /\ ws[w].pc = "idle"
    /\ LET d == DequeuePop(ready_heap, scheduled_heap, now)
           r == d.item.job
           u == PostRow[ReportRow[r].post_id].user_id
       IN  /\ d.item # NoItem
           /\ ready_heap' = d.ready
           /\ scheduled_heap' = d.scheduled
           /\ ws' = [ws EXCEPT ![w] =
                 [IdleWorker EXCEPT
                    !.pc = IF LogsOf(r) # {} THEN "fetch" ELSE "ensure",
                    !.report = r,
                    !.started = now,
                    !.trust = users[u].trust_score,
                    !.accurate = users[u].accurate_submissions,
                    !.log = IF LogsOf(r) # {} THEN CHOOSE l \in LogsOf(r) : TRUE
                            ELSE NoLog]]
    /\ UNCHANGED <<now, seq_counter, deq_last, wvars, hvars, bvars, dbvars, eh>>

\* _ensure_log lines 52-64: insert the placeholder and flush.  The insert
\* waits for the write lock; on IntegrityError the session is rolled back
\* (its loaded rows expire) and the existing row is loaded.
EnsureInsert(w) ==
    /\ ws[w].pc = "ensure"
    /\ db_writer = 0
    /\ IF UniqueConflict(logs, ws[w].report)
       THEN /\ ws' = [ws EXCEPT ![w] =
                  [@ EXCEPT !.pc = "fetch", !.raced = TRUE, !.expired = TRUE,
                            !.log = CHOOSE l \in LogsOf(ws[w].report) : TRUE]]
            /\ UNCHANGED db_writer
       ELSE /\ ws' = [ws EXCEPT ![w] =
                  [@ EXCEPT !.pc = "fetch", !.log_new = TRUE,
                            !.log = [NoLog EXCEPT
                                       !.id = NewId(logs),
                                       !.affiliate_report_id = ws[w].report,
                                       !.status = "MISSING_PLATFORM_DATA"]]]
            /\ db_writer' = w
    /\ UNCHANGED <<now, qvars, hvars, bvars, logs, alerts, users, posts,
                   platform_reports, eh>>

\* run_reconciliation lines 114-142: fetch, classify, score trust.  A user
\* row expired by the rollback in _ensure_log is read again here.
Fetch(w, ret) ==
    /\ ws[w].pc = "fetch"
    /\ LET r == ws[w].report
           p == ReportRow[r].post_id
           u == PostRow[p].user_id
           platform == PostRow[p].platform
           o == FetchOutcome(breaker_states[platform], ret, now)
           elapsed == Max(0, ws[w].started - ReportRow[r].submitted_at)
           c == classify(ReportRow[r].claimed, o.metrics, elapsed,
                         o.partial_missing)
           trust == IF ws[w].expired THEN users[u].trust_score ELSE ws[w].trust
           accurate == IF ws[w].expired THEN users[u].accurate_submissions
                       ELSE ws[w].accurate
           t == apply_trust_event(TrustOr(trust), c.trust_event)
           has_metrics == \E i \in 1..3 : o.metrics[i] # NoMetric
       IN  /\ breaker_states' = [breaker_states EXCEPT ![platform] = o.st]
           /\ ws' = [ws EXCEPT ![w] =
                 [@ EXCEPT !.pc = IF has_metrics THEN "flush" ELSE "alert",
                           !.expired = FALSE,
                           !.trust = trust,
                           !.accurate = accurate,
                           !.cls = c,
                           !.new_trust = IF c.trust_event # None THEN t.new_score
                                         ELSE trust,
                           !.trust_delta = IF c.trust_event # None
                                           THEN t.effective_delta ELSE 0,
                           !.has_metrics = has_metrics,
                           !.error_code = o.error_code,
                           !.rate_limited = o.rate_limited]]
    /\ UNCHANGED <<now, qvars, hvars, fx, fetch_count, bh, dbvars, eh>>

\* run_reconciliation lines 144-158: add the PlatformReport and flush (the
\* flush also sends the pending user update); it waits for the write lock.
Flush(w) ==
    /\ ws[w].pc = "flush"
    /\ db_writer \in {0, w}
    /\ db_writer' = w
    /\ ws' = [ws EXCEPT ![w] = [@ EXCEPT !.pc = "alert"]]
    /\ UNCHANGED <<now, qvars, hvars, bvars, logs, alerts, users, posts,
                   platform_reports, eh>>

\* A log update that leaves the error code of the earlier attempt.
update_log_without_error(log, cls, error_code, rate_limited, trust_delta, submitted_at, t) ==
    LET attempt_count == log.attempt_count + 1
    IN  [log EXCEPT
           !.attempt_count = attempt_count,
           !.last_attempt_at = t,
           !.status = cls.status,
           !.discrepancy_level = cls.discrepancy_level,
           !.missing_fields = cls.missing_fields,
           !.trust_delta = trust_delta,
           !.rate_limited = rate_limited,
           !.scheduled_retry_at =
               schedule_retry(cls.status, attempt_count, submitted_at, t)]

\* run_reconciliation lines 160-182: the log after the attempt that started at
\* time t, given the classification, the fetch outcome and the trust delta.
update_log(log, cls, error_code, rate_limited, trust_delta, submitted_at, t) ==
    LET attempt_count == log.attempt_count + 1
    IN  [log EXCEPT
           !.attempt_count = attempt_count,
           !.last_attempt_at = t,
           !.status = cls.status,
           !.discrepancy_level = cls.discrepancy_level,
           !.missing_fields = cls.missing_fields,
           !.trust_delta = trust_delta,
           !.error_code = error_code,
           !.rate_limited = rate_limited,
           !.scheduled_retry_at =
               schedule_retry(cls.status, attempt_count, submitted_at, t)]

\* the log of a worker's run after lines 160-182
UpdatedLog(k) ==
    update_log(k.log, k.cls, k.error_code, k.rate_limited, k.trust_delta,
               ReportRow[k.report].submitted_at, k.started)

\* _repeat_high_discrepancy without the time window.
repeat_high_discrepancy_any_age(user_id, platform_id, t) ==
    \E a \in alerts : /\ a.user_id = user_id
                      /\ a.platform_id = platform_id
                      /\ a.alert_type = "HIGH_DISCREPANCY"

\* alerting._repeat_high_discrepancy
repeat_high_discrepancy(user_id, platform_id, t) ==
    \E a \in alerts : /\ a.user_id = user_id
                      /\ a.platform_id = platform_id
                      /\ a.alert_type = "HIGH_DISCREPANCY"
                      /\ a.created_at >= t - repeat_overclaim_window_hours * 3600

\* maybe_create_alert with rule 3 applied while a retry is still pending.
maybe_create_alert_while_retrying(log, user_id, platform_id, retry_scheduled, t) ==
    LET new(type, category, severity) ==
            [reconciliation_log_id |-> log.id, user_id |-> user_id,
             platform_id |-> platform_id, alert_type |-> type,
             category |-> category, severity |-> severity]
    IN  IF \E a \in alerts : a.reconciliation_log_id = log.id
        THEN NoAlert
        ELSE IF log.status = "AFFILIATE_OVERCLAIMED"
        THEN new("HIGH_DISCREPANCY", "FRAUD",
                 IF log.discrepancy_level = "CRITICAL" THEN "CRITICAL" ELSE "HIGH")
        ELSE IF log.status = "DISCREPANCY_HIGH"
        THEN new("HIGH_DISCREPANCY", "DATA_QUALITY",
                 IF repeat_high_discrepancy(user_id, platform_id, t)
                 THEN "CRITICAL" ELSE "HIGH")
        ELSE IF log.status = "MISSING_PLATFORM_DATA"
        THEN new("MISSING_DATA", "SYSTEM_HEALTH", "MEDIUM")
        ELSE NoAlert

\* alerting.maybe_create_alert: the alert added to the session, or NoAlert.
maybe_create_alert(log, user_id, platform_id, retry_scheduled, t) ==
    LET new(type, category, severity) ==
            [reconciliation_log_id |-> log.id, user_id |-> user_id,
             platform_id |-> platform_id, alert_type |-> type,
             category |-> category, severity |-> severity]
    IN  IF \E a \in alerts : a.reconciliation_log_id = log.id
        THEN NoAlert
        ELSE IF log.status = "AFFILIATE_OVERCLAIMED"
        THEN new("HIGH_DISCREPANCY", "FRAUD",
                 IF log.discrepancy_level = "CRITICAL" THEN "CRITICAL" ELSE "HIGH")
        ELSE IF log.status = "DISCREPANCY_HIGH"
        THEN new("HIGH_DISCREPANCY", "DATA_QUALITY",
                 IF repeat_high_discrepancy(user_id, platform_id, t)
                 THEN "CRITICAL" ELSE "HIGH")
        ELSE IF log.status = "MISSING_PLATFORM_DATA" /\ ~retry_scheduled
        THEN new("MISSING_DATA", "SYSTEM_HEALTH", "MEDIUM")
        ELSE NoAlert

\* run_reconciliation lines 160-195: update the log in the session and call
\* maybe_create_alert, which reads the alerts of the log.
AlertCheck(w) ==
    /\ ws[w].pc = "alert"
    /\ LET log == UpdatedLog(ws[w])
           p == ReportRow[ws[w].report].post_id
       IN  ws' = [ws EXCEPT ![w] =
                 [@ EXCEPT !.pc = "commit",
                           !.alert = maybe_create_alert(
                                        log, PostRow[p].user_id, PostRow[p].platform,
                                        log.scheduled_retry_at # NoTime, now)]]
    /\ UNCHANGED <<now, qvars, hvars, bvars, dbvars, eh>>

\* UPDATE of a row: only the columns the session changed are written.
MergeRow(current, loaded, new) ==
    [c \in DOMAIN new |-> IF new[c] # loaded[c] THEN new[c] ELSE current[c]]

\* run_reconciliation lines 197-227 and _process lines 75-87: commit, return
\* the summary, close the session.
Commit(w) ==
    /\ ws[w].pc = "commit"
    /\ db_writer \in {0, w}
    /\ LET k == ws[w]
           log == UpdatedLog(k)
           p == ReportRow[k.report].post_id
           u == PostRow[p].user_id
           result == [report |-> k.report, retry_at |-> log.scheduled_retry_at]
           attempt == [status |-> log.status, retry_at |-> log.scheduled_retry_at]
       IN  /\ logs' = IF k.log_new THEN logs \cup {log}
                      ELSE {IF l.id = log.id THEN MergeRow(l, k.log, log) ELSE l
                            : l \in logs}
           /\ users' = [users EXCEPT ![u] =
                 [trust_score |-> IF k.new_trust # k.trust THEN k.new_trust
                                  ELSE @.trust_score,
                  accurate_submissions |->
                      IF k.cls.trust_event = "perfect_match" THEN k.accurate + 1
                      ELSE @.accurate_submissions]]
           /\ posts' = IF log.status \in terminal_statuses
                          /\ log.scheduled_retry_at = NoTime
                       THEN [posts EXCEPT ![p].is_reconciled = TRUE]
                       ELSE posts
           /\ alerts' = IF k.alert = NoAlert THEN alerts
                        ELSE alerts \cup {[id |-> NewId(alerts), created_at |-> now]
                                          @@ k.alert}
           /\ platform_reports' = platform_reports + (IF k.has_metrics THEN 1 ELSE 0)
           /\ eh' = [commits |-> eh.commits + 1,
                     last |-> [eh.last EXCEPT ![p] = attempt]]
           /\ ws' = [ws EXCEPT ![w] = [IdleWorker EXCEPT !.last = result]]
    /\ db_writer' = 0
    /\ UNCHANGED <<now, qvars, hvars, bvars>>

\* _process lines 77-85: the diagnostic record of a failed job
Diagnostic(report_id, type) == [report_id |-> report_id, type |-> type]

\* A flush or commit that waits for the write lock longer than the busy
\* timeout raises OperationalError: _process logs it, records the diagnostic
\* and closes the session.
LockTimeout(w) ==
    /\ ws[w].pc \in {"ensure", "flush", "commit"}
    /\ db_writer \notin {0, w}
    /\ ws' = [ws EXCEPT ![w] = IdleWorker]
    /\ last_exceptions' = Append(last_exceptions,
                                 Diagnostic(ws[w].report, "OperationalError"))
    /\ UNCHANGED <<now, qvars, ts, cs, sh, ps, affiliate_reports, bvars, dbvars,
                   eh>>

EngineTick ==
    /\ now < MaxEngineTime
    /\ now' = now + EngineTickStep
    /\ UNCHANGED <<qvars, hvars, bvars, evars>>

(***************************************************************************)
(* run_reconciliation called directly with one session, one call after the *)
(* other (as the integration tests call it), on one report of post 1.  The *)
(* whole call is one step: nothing else touches the database meanwhile.    *)
(***************************************************************************)
SerialReport == 1

\* claimed metrics of the report and the times it was submitted at
SerialClaims == {<<100, 10, 1>>, <<250, 35, 4>>}
SerialSubmitted == {0, 60 * 60}

\* trust scores the affiliate starts with
SerialTrusts == {default_trust_score, 10}

\* what the platform adapter returns during one run
SerialReturns ==
    { [code |-> "fetch_error", data |-> NoData],
      [code |-> None, data |-> <<100, 10, 1>>],
      [code |-> None, data |-> <<118, 12, 1>>],
      [code |-> None, data |-> <<50, 10, 1>>],
      [code |-> None, data |-> <<100, NoMetric, NoMetric>>] }

\* history of the latest run: what it was given, what it found, and what
\* the log and the user held before it
NoRun == [ret |-> [code |-> None, data |-> NoData], at |-> NoTime,
          metrics |-> NoData, fetch_attempts |-> 0, cls |-> NoClass,
          attempt_before |-> 0, trust_before |-> 0, accurate_before |-> 0,
          alerts_before |-> 0]

\* history of the run before it
NoPrev == [ret |-> [code |-> None, data |-> NoData], at |-> NoTime,
           status |-> None]

NoSerial == [claimed |-> <<0, 0, 0>>, submitted_at |-> 0,
             last |-> NoRun, prev |-> NoPrev]

NoClassification == [called |-> FALSE, claimed |-> <<0, 0, 0>>,
                     platform |-> NoData, elapsed |-> 0, res |-> NoClass]

\* compute_priority has not been called.
NoPriority == [called |-> FALSE, trust_score |-> 0, has_suspicion_flags |-> FALSE,
               label |-> None]

\* nothing submitted yet, LAST_EXCEPTIONS empty
AppIdle == affiliate_reports = {} /\ last_exceptions = <<>>

HarnessIdle ==
    cs = NoClassification /\ sh = NoSerial /\ ps = NoPriority /\ AppIdle

\* run_reconciliation(session, report) at time `now`, the adapter returning
\* `ret` on every call of this run: lines 96-227.
SerialRun(ret) ==
    /\ \A l \in LogsOf(SerialReport) : l.attempt_count < MaxSerialRuns
    /\ LET r == SerialReport
           p == ReportRow[r].post_id
           u == PostRow[p].user_id
           platform == PostRow[p].platform
           existing == LogsOf(r)
           log0 == IF existing # {} THEN CHOOSE l \in existing : TRUE
                   ELSE [NoLog EXCEPT !.id = NewId(logs),
                                      !.affiliate_report_id = r,
                                      !.status = "MISSING_PLATFORM_DATA"]
           elapsed == Max(0, now - sh.submitted_at)
           trust == users[u].trust_score
       IN  \E o \in {FetchOutcome(breaker_states[platform], ret, now)} :
           \E c \in {classify(sh.claimed, o.metrics, elapsed,
                                o.partial_missing)} :
           \E t \in {apply_trust_event(TrustOr(trust), c.trust_event)} :
           LET new_trust == IF c.trust_event # None THEN t.new_score ELSE trust
               trust_delta == IF c.trust_event # None THEN t.effective_delta ELSE 0
               accurate == users[u].accurate_submissions
                           + (IF c.trust_event = "perfect_match" THEN 1 ELSE 0)
               has_metrics == \E i \in 1..3 : o.metrics[i] # NoMetric
           IN  \E log \in {update_log(log0, c, o.error_code, o.rate_limited,
                                      trust_delta, sh.submitted_at, now)} :
               \E alert \in {maybe_create_alert(log, u, platform,
                                 log.scheduled_retry_at # NoTime, now)} :
               /\ breaker_states' = [breaker_states EXCEPT ![platform] = o.st]
               /\ logs' = (logs \ existing) \cup {log}
               /\ users' = [users EXCEPT ![u] =
                               [trust_score |-> new_trust,
                                accurate_submissions |-> accurate]]
               /\ posts' = IF log.status \in terminal_statuses
                              /\ log.scheduled_retry_at = NoTime
                           THEN [posts EXCEPT ![p].is_reconciled = TRUE]
                           ELSE posts
               /\ alerts' = IF alert = NoAlert THEN alerts
                            ELSE alerts \cup {[id |-> NewId(alerts),
                                               created_at |-> now] @@ alert}
               /\ platform_reports' = platform_reports
                                      + (IF has_metrics THEN 1 ELSE 0)
               /\ eh' = [commits |-> eh.commits + 1,
                         last |-> [eh.last EXCEPT ![p] =
                                      [status |-> log.status,
                                       retry_at |-> log.scheduled_retry_at]]]
               /\ sh' = [sh EXCEPT
                     !.prev = [ret |-> sh.last.ret, at |-> sh.last.at,
                               status |-> sh.last.cls.status],
                     !.last = [ret |-> ret, at |-> now, metrics |-> o.metrics,
                               fetch_attempts |-> o.attempts, cls |-> c,
                               attempt_before |-> log0.attempt_count,
                               trust_before |-> trust,
                               accurate_before |-> users[u].accurate_submissions,
                               alerts_before |-> Cardinality(alerts)]]
    /\ UNCHANGED <<now, qvars, ts, cs, ps, avars, fx, fetch_count, bh, db_writer,
                   ws>>

SerialTick ==
    /\ now + SerialTickStep <= MaxSerialTime
    /\ now' = now + SerialTickStep
    /\ UNCHANGED <<qvars, hvars, bvars, evars>>

(***************************************************************************)
(* Classifier harness: classify called on any claimed and platform metrics *)
(* of the ranges below.                                                    *)
(***************************************************************************)
ClaimedViews == {0, 50, 79, 80, 90, 95, 100, 105, 106, 110, 111, 120, 150}
ClaimedClicks == {10, 12}
ClaimedConversions == {1}
PlatformViews == {NoMetric, 0, 100}
PlatformClicks == {NoMetric, 10}
PlatformConversions == {NoMetric, 0, 1}
ElapsedSeconds == {0, 60 * 60, 25 * 60 * 60}

\* classify(claimed_views, ..., platform_views, ..., elapsed_hours=...) on the
\* inputs the harness holds
ClassifyCall ==
    /\ ~cs.called
    /\ cs' = [cs EXCEPT !.called = TRUE,
                        !.res = classify(cs.claimed, cs.platform, cs.elapsed, <<>>)]
    /\ UNCHANGED <<now, qvars, ts, sh, ps, avars, bvars, evars>>

\* compute_priority(trust_score, has_suspicion_flags) on the inputs the
\* harness holds
PriorityCall ==
    /\ ~ps.called
    /\ ps' = [ps EXCEPT !.called = TRUE,
                        !.label = compute_priority(ps.trust_score,
                                                   ps.has_suspicion_flags)]
    /\ UNCHANGED <<now, qvars, ts, cs, sh, avars, bvars, evars>>

(***************************************************************************)
(* Specifications: one per component, over the same variables.             *)
(***************************************************************************)
InitQueue ==
    now = 0 /\ QueueInit /\ TrustIdle /\ BreakerInit /\ EngineInit /\ HarnessIdle

NextQueue ==
    \/ \E p \in DOMAIN PriorityMap, d \in 0..MaxDelay : Enqueue(p, d)
    \/ Dequeue
    \/ QueueTick

SpecQueue == InitQueue /\ [][NextQueue]_vars

InitTrust ==
    /\ now = 0 /\ QueueInit /\ BreakerInit /\ EngineInit /\ HarnessIdle
    /\ \E s \in min_score..max_score :
          ts = [score |-> s, prev |-> s, event |-> None, delta |-> 0]

NextTrust == \E e \in TrustEvents : ApplyTrust(e)

SpecTrust == InitTrust /\ [][NextTrust]_vars

InitBreaker ==
    now = 0 /\ QueueInit /\ TrustIdle /\ BreakerInit /\ EngineInit /\ HarnessIdle

NextBreaker ==
    \/ \E f \in Fetchers, p \in Platforms : FetchBegin(f, p)
    \/ \E f \in Fetchers, c \in AdapterCodes : FetchAttempt(f, c)
    \/ BreakerTick

SpecBreaker == InitBreaker /\ [][NextBreaker]_vars

NextBreakerRace ==
    \/ \E f \in Fetchers, p \in Platforms : RaceAllowEnter(f, p)
    \/ \E f \in Fetchers : RaceProbeCheck(f)
    \/ \E f \in Fetchers : RaceProbeRead(f)
    \/ \E f \in Fetchers : RaceProbeWrite(f)
    \/ \E f \in Fetchers, c \in AdapterCodes : RaceAdapter(f, c)
    \/ \E f \in Fetchers : RaceFailWrite(f)
    \/ \E f \in Fetchers : RaceFailCheck(f)
    \/ BreakerTick

SpecBreakerRace == InitBreaker /\ [][NextBreakerRace]_vars

\* fetch() called by up to four threads at once, the breaker calls atomic.
\* The breaker has just been tripped by failure_threshold failures in a row.
InitProbe ==
    /\ now = 0 /\ QueueInit /\ TrustIdle /\ EngineInit /\ HarnessIdle
    /\ breaker_states = [p \in Platforms |->
          [NewBreakerState EXCEPT !.failures = failure_threshold,
                                  !.state = "OPEN", !.opened_at = 0]]
    /\ fx = [f \in ProbeFetchers |-> IdleFetch]
    /\ fetch_count = 0
    /\ bh = [p \in Platforms |->
          [NoHistory EXCEPT !.tripped_at = 0, !.consec = failure_threshold]]

NextProbe ==
    \/ \E f \in ProbeFetchers, p \in Platforms : ProbeBegin(f, p)
    \/ \E f \in ProbeFetchers, c \in ProbeCodes : FetchAttempt(f, c)
    \/ BreakerTick

SpecProbe == InitProbe /\ [][NextProbe]_vars

\* PriorityDelayQueue used by producers and blocking consumers.
InitWait ==
    now = 0 /\ QueueInit /\ TrustIdle /\ BreakerInit /\ EngineInit /\ HarnessIdle

NextWait ==
    \/ \E p \in PriorityLabels, d \in 0 .. MaxDelay : WaitEnqueue(p, d)
    \/ \E c \in Consumers, b \in BOOLEAN, t \in Timeouts : DequeueCall(c, b, t)
    \/ \E c \in Consumers : DequeueResume(c)
    \/ QueueShutdown
    \/ WaitTick

SpecWait == InitWait /\ [][NextWait]_vars

\* The n jobs 1 .. n enqueued at time 0 with priority 'normal' and no delay.
FilledHeap(n) ==
    {[job |-> i, priority_label |-> "normal",
      priority_value |-> PriorityMap["normal"], enqueued_at |-> 0,
      ready_at |-> 0, seq |-> i] : i \in 1 .. n}

\* PriorityDelayQueue holding nearly max_in_memory jobs, and producers.
InitCapacity ==
    /\ now = 0 /\ TrustIdle /\ BreakerInit /\ EngineInit /\ HarnessIdle
    /\ \E n \in (max_in_memory - CapacityRoom) .. (max_in_memory - 1) :
          /\ ready_heap = FilledHeap(n)
          /\ seq_counter = n
    /\ scheduled_heap = {}
    /\ deq_last = NoDequeue
    /\ shutdown = FALSE
    /\ cons = [c \in Consumers |-> IdleConsumer]
    /\ enq_last = NoEnqueue
    /\ rq = NewRedis

NextCapacity ==
    \E p \in PriorityLabels, d \in 0 .. MaxDelay : CapacityEnqueue(p, d)

SpecCapacity == InitCapacity /\ [][NextCapacity]_vars

\* Delayed jobs on the queue create_queue returned: the in-memory queue or
\* the Redis queue.
InitDelay ==
    /\ now = 0 /\ TrustIdle /\ BreakerInit /\ EngineInit /\ HarnessIdle
    /\ ready_heap = {}
    /\ scheduled_heap = {}
    /\ seq_counter = 0
    /\ deq_last = NoDequeue
    /\ shutdown = FALSE
    /\ cons = [c \in Consumers |-> IdleConsumer]
    /\ enq_last = NoEnqueue
    /\ \E use_redis \in BOOLEAN : rq = [NewRedis EXCEPT !.use_redis = use_redis]

NextDelay ==
    \/ \E p \in DOMAIN PriorityMap, d \in 0 .. MaxDelay : DelayEnqueue(p, d)
    \/ DelayDequeue
    \/ \E p \in DOMAIN PriorityMap, d \in 0 .. MaxDelay : DelayRedisEnqueue(p, d)
    \/ RedisDequeue
    \/ DelayTick

SpecDelay == InitDelay /\ [][NextDelay]_vars

\* compute_priority on every trust score of the scale and both flag values.
InitPriority ==
    /\ now = 0 /\ QueueInit /\ TrustIdle /\ BreakerInit /\ EngineInit
    /\ cs = NoClassification /\ sh = NoSerial /\ AppIdle
    /\ \E s \in min_score .. max_score, f \in BOOLEAN :
          ps = [NoPriority EXCEPT !.trust_score = s, !.has_suspicion_flags = f]

NextPriority == PriorityCall

SpecPriority == InitPriority /\ [][NextPriority]_vars

InitEngine ==
    now = 0 /\ QueueInit /\ TrustIdle /\ BreakerInit /\ EngineInit /\ HarnessIdle

NextEngine ==
    \/ \E p \in Posts, force \in BOOLEAN : TriggerPost(p, force)
    \/ \E force \in BOOLEAN : TriggerBulk(force)
    \/ \E w \in Workers : WorkerDequeue(w)
    \/ \E w \in Workers : EnsureInsert(w)
    \/ \E w \in Workers, ret \in AdapterReturns : Fetch(w, ret)
    \/ \E w \in Workers : Flush(w)
    \/ \E w \in Workers : AlertCheck(w)
    \/ \E w \in Workers : Commit(w)
    \/ \E w \in Workers : LockTimeout(w)
    \/ EngineTick

SpecEngine == InitEngine /\ [][NextEngine]_vars

\* One session: a report submitted now or an hour ago, by an affiliate of
\* default or low trust.
InitSerial ==
    /\ now = 60 * 60 /\ QueueInit /\ TrustIdle /\ BreakerInit
    /\ logs = {} /\ alerts = {} /\ platform_reports = 0 /\ db_writer = 0
    /\ posts = [p \in Posts |-> [is_reconciled |-> FALSE]]
    /\ ws = [w \in Workers |-> IdleWorker]
    /\ eh = [commits |-> 0, last |-> [p \in Posts |-> NoAttempt]]
    /\ \E s \in SerialTrusts :
          users = [u \in Users |-> [trust_score |-> s, accurate_submissions |-> 0]]
    /\ cs = NoClassification
    /\ ps = NoPriority /\ AppIdle
    /\ \E c \in SerialClaims, t \in SerialSubmitted :
          sh = [NoSerial EXCEPT !.claimed = c, !.submitted_at = t]

NextSerial ==
    \/ \E ret \in SerialReturns : SerialRun(ret)
    \/ SerialTick

SpecSerial == InitSerial /\ [][NextSerial]_vars

(***************************************************************************)
(* Adapter harness: run_reconciliation on one report, the adapter module   *)
(* behaving in each of the ways _call_adapter tells apart.                 *)
(***************************************************************************)
\* what the adapter module does when fetch_post_metrics is looked up and
\* called: the import fails, the function is missing, the call raises (the
\* text of the exception names a rate limit, an auth failure, or neither),
\* the call returns something that is not a dict, or it returns a dict
AdapterBehaviours ==
    {"import_error", "no_function", "raises_rate_limit", "raises_401",
     "raises_other", "returns_list", "returns_dict"}

\* PlatformFetcher._call_adapter: (data, error_code) for each behaviour.
call_adapter(behaviour) ==
    CASE behaviour = "returns_dict" -> [code |-> None, data |-> <<100, 10, 1>>]
      [] behaviour = "no_function" -> [code |-> "adapter_missing", data |-> NoData]
      [] behaviour = "returns_list" ->
             [code |-> "invalid_adapter_return", data |-> NoData]
      [] behaviour = "raises_rate_limit" -> [code |-> "rate_limited", data |-> NoData]
      [] behaviour = "raises_401" -> [code |-> "auth_error", data |-> NoData]
      [] OTHER -> [code |-> "fetch_error", data |-> NoData]

\* run_reconciliation with the adapter behaving as `behaviour` on every call
\* of the run
AdapterRun(behaviour) == SerialRun(call_adapter(behaviour))

InitAdapter ==
    /\ now = 60 * 60 /\ QueueInit /\ TrustIdle /\ BreakerInit
    /\ logs = {} /\ alerts = {} /\ platform_reports = 0 /\ db_writer = 0
    /\ posts = [p \in Posts |-> [is_reconciled |-> FALSE]]
    /\ ws = [w \in Workers |-> IdleWorker]
    /\ eh = [commits |-> 0, last |-> [p \in Posts |-> NoAttempt]]
    /\ users = [u \in Users |-> [trust_score |-> default_trust_score,
                                  accurate_submissions |-> 0]]
    /\ cs = NoClassification
    /\ ps = NoPriority /\ AppIdle
    /\ sh = [NoSerial EXCEPT !.claimed = <<100, 10, 1>>, !.submitted_at = 0]

NextAdapter ==
    \/ \E b \in AdapterBehaviours : AdapterRun(b)
    \/ SerialTick

SpecAdapter == InitAdapter /\ [][NextAdapter]_vars

InitClassify ==
    /\ now = 0 /\ QueueInit /\ TrustIdle /\ BreakerInit /\ EngineInit
    /\ sh = NoSerial
    /\ ps = NoPriority /\ AppIdle
    /\ \E c \in ClaimedViews \X ClaimedClicks \X ClaimedConversions,
          p \in PlatformViews \X PlatformClicks \X PlatformConversions,
          e \in ElapsedSeconds :
          cs = [NoClassification EXCEPT !.claimed = c, !.platform = p,
                                        !.elapsed = e]

NextClassify == ClassifyCall

SpecClassify == InitClassify /\ [][NextClassify]_vars

(***************************************************************************)
(* Claims.                                                                 *)
(***************************************************************************)
Eligible(d) == {i \in d.pre : i.ready_at <= d.at}

\* The trust deltas of the configuration defaults, per event.
DefaultDelta(e) ==
    CASE e = "perfect_match" -> 1
      [] e = "minor_discrepancy" -> -1
      [] e = "medium_discrepancy" -> -3
      [] e = "high_discrepancy" -> -5
      [] e = "overclaim" -> -10
      [] e = "impossible_submission" -> -15
      [] OTHER -> 0

\* C2: from any score in [0, 1] and after any sequence of trust events the
\* score stays in [0, 1]; each application returns the clipped sum and the
\* effective delta new - current (0 for an event that has no delta).
C2_TrustScoreBounded ==
    /\ ts.score >= 0 /\ ts.score <= 100
    /\ ts.event # None =>
          LET sum == ts.prev + DefaultDelta(ts.event)
          IN  /\ ts.score = (IF sum < 0 THEN 0 ELSE IF sum > 100 THEN 100 ELSE sum)
              /\ ts.delta = ts.score - ts.prev
              /\ (ts.event = "manual_adjust" => ts.delta = 0 /\ ts.score = ts.prev)

\* A negative event was clipped at the lower bound: the effective delta is
\* smaller than the configured one.
C2_Witness ==
    /\ ts.event = "impossible_submission"
    /\ ts.prev > 0 /\ ts.prev < 15
    /\ ts.score = 0
    /\ ts.delta = 0 - ts.prev

\* C3: a dequeue that returns an item returns, among all queued items whose
\* ready_at <= now (enqueued ready, or delayed and now due), the one with the
\* least (priority_value, seq).
C3_DequeueOrder ==
    (deq_last.called /\ deq_last.item # NoItem) =>
        /\ deq_last.item \in Eligible(deq_last)
        /\ \A j \in Eligible(deq_last) \ {deq_last.item} :
              \/ deq_last.item.priority_value < j.priority_value
              \/ /\ deq_last.item.priority_value = j.priority_value
                 /\ deq_last.item.seq < j.seq

\* A dequeue chose a later-enqueued item over an earlier one by priority, and
\* an item that had been delayed and is now due was among the candidates.
C3_Witness ==
    /\ deq_last.called /\ deq_last.item # NoItem
    /\ \E j \in Eligible(deq_last) :
          j.seq < deq_last.item.seq /\ j.priority_value > deq_last.item.priority_value
    /\ \E j \in Eligible(deq_last) : j.ready_at > j.enqueued_at

\* C4: a job whose ready_at is still in the future never blocks a ready job,
\* whatever the priorities: if some queued item is ready, dequeue returns a
\* ready item, and every item not yet due stays queued.
C4_NoStarvationByScheduled ==
    (deq_last.called /\ Eligible(deq_last) # {}) =>
        /\ deq_last.item # NoItem
        /\ deq_last.item.ready_at <= deq_last.at
        /\ (deq_last.pre \ Eligible(deq_last)) \subseteq scheduled_heap

\* A "high" job scheduled for later was queued while a ready job of lower
\* priority was returned.
C4_Witness ==
    /\ deq_last.called /\ deq_last.item # NoItem
    /\ deq_last.item.priority_label \in {"normal", "low"}
    /\ \E j \in deq_last.pre :
          /\ j.priority_label = "high"
          /\ j.ready_at > deq_last.at
          /\ j.seq < deq_last.item.seq

\* C5: once the failure threshold has taken the breaker of a platform from
\* CLOSED to OPEN, every allow_call for that platform made before
\* open_cooldown_seconds have elapsed since then returns
\* (False, "circuit_open").  (bh[p] keeps the time of that transition and the
\* result of the latest allow_call made after it.)
C5_OpenUntilCooldown ==
    \A p \in Platforms :
        (/\ bh[p].tripped_at # NoTime
         /\ bh[p].allow_called
         /\ bh[p].allow_at - bh[p].tripped_at < open_cooldown_seconds)
        => (~bh[p].allowed /\ bh[p].reason = "circuit_open")

\* A caller is inside allow_call or record_failure for platform p.
InBreakerCall(p) ==
    \E f \in Fetchers : fx[f].platform = p /\ fx[f].pc \notin {"idle", "loop"}

\* C10: the circuit breaker is thread-safe per key.  With callers in several
\* threads, no failure increment is lost (while CLOSED the failure count is
\* at least the number of failures recorded since the last success, so the
\* breaker has left CLOSED once failure_threshold of them are recorded), and
\* no more than half_open_probe_count calls are admitted in HALF_OPEN.
C10_BreakerThreadSafe ==
    \A p \in Platforms :
        /\ bh[p].admitted <= half_open_probe_count
        /\ (~InBreakerCall(p) /\ breaker_states[p].state = "CLOSED")
           => /\ breaker_states[p].failures >= bh[p].consec
              /\ bh[p].consec < failure_threshold

\* Every row of reconciliation_logs, the committed ones and the placeholders
\* inserted by a session that has not committed yet.
AllLogRows == logs \cup {ws[w].log : w \in {x \in Workers : ws[x].log_new}}

\* C1: under every interleaving of concurrent run_reconciliation calls, at
\* most one ReconciliationLog row exists per AffiliateReport, and a run that
\* lost the placeholder-insert race works on the existing row of its report,
\* not on a row of its own.
C1_SingleLogPerReport ==
    /\ \A r \in Reports :
          Cardinality({l \in AllLogRows : l.affiliate_report_id = r}) <= 1
    /\ \A w \in Workers :
          ws[w].raced => /\ ~ws[w].log_new
                         /\ \E l \in logs : /\ l.id = ws[w].log.id
                                            /\ l.affiliate_report_id = ws[w].report

\* A run that lost the race is about to commit its update of the row the
\* winner created.
C1_Witness ==
    \E w \in Workers : /\ ws[w].raced
                       /\ ws[w].pc = "commit"
                       /\ ws[w].log.attempt_count = 1

\* C6: in every reachable state each ReconciliationLog has at most one Alert,
\* whatever attempts, repeated or concurrent, were made on its report.
C6_OneAlertPerLog ==
    \A l \in logs :
        Cardinality({a \in alerts : a.reconciliation_log_id = l.id}) <= 1

\* C7: for every post, is_reconciled is true exactly when the latest
\* reconciliation attempt committed on the post ended with a terminal status
\* and no scheduled retry.
C7_ReconciledIffLatestTerminal ==
    \A p \in Posts :
        posts[p].is_reconciled <=> /\ eh.last[p].status \in terminal_statuses
                                   /\ eh.last[p].retry_at = NoTime

\* C8: when a run has committed with scheduled_retry_at set and its worker
\* is back in its loop, a job for the same report is in the queue, due at
\* scheduled_retry_at (until that time, when it can be dequeued again).
C8_RetryReenqueued ==
    \A w \in Workers :
        (/\ ws[w].pc = "idle"
         /\ ws[w].last.retry_at # NoTime
         /\ now < ws[w].last.retry_at)
        => \E i \in ready_heap \cup scheduled_heap :
              /\ i.job = ws[w].last.report
              /\ i.ready_at = ws[w].last.retry_at

\* The trust event of a reconciliation status (classify).
EventOfStatus(status) ==
    CASE status = "MATCHED" -> "perfect_match"
      [] status = "DISCREPANCY_LOW" -> "minor_discrepancy"
      [] status = "DISCREPANCY_MEDIUM" -> "medium_discrepancy"
      [] status = "DISCREPANCY_HIGH" -> "high_discrepancy"
      [] status = "AFFILIATE_OVERCLAIMED" -> "overclaim"
      [] OTHER -> None

SerialTrust(first, second) ==
    apply_trust_event(apply_trust_event(default_trust_score,
                                        EventOfStatus(first)).new_score,
                      EventOfStatus(second)).new_score

\* C9: when the only two runs committed so far reconciled the two reports of
\* the affiliate, one attempt each, the stored trust score is the initial
\* score with both trust events applied, in one order or the other.
C9_NoLostTrustDelta ==
    (/\ eh.commits = 2
     /\ \A r \in Reports : \E l \in logs : /\ l.affiliate_report_id = r
                                           /\ l.attempt_count = 1)
    => LET s1 == (CHOOSE l \in LogsOf(1) : TRUE).status
           s2 == (CHOOSE l \in LogsOf(2) : TRUE).status
       IN  users[1].trust_score \in {SerialTrust(s1, s2), SerialTrust(s2, s1)}

\* The log row of the report of the one-session runs.
SerialLog == CHOOSE l \in LogsOf(SerialReport) : TRUE

\* The latest one-session run ended with this status.
SerialEnded(status) ==
    sh.last.at # NoTime /\ sh.last.cls.status = status

\* Time between the submission of the report and the latest run.
SerialElapsed == sh.last.at - sh.submitted_at

\* The retry time the missing-data policy gives attempt k at elapsed time e.
MissingRetryAt(k, e, at) ==
    IF k >= 5 \/ e > 24 * 3600 THEN NoTime
    ELSE at + 30 * 60 * (IF k >= 1 THEN k ELSE 1)

\* C11 as stated: an attempt that ends with MISSING_PLATFORM_DATA and
\* post-increment attempt_count k leaves scheduled_retry_at null if k >= 5 or
\* more than 24 h have passed since submission, and now + 30 min * max(1, k)
\* otherwise; and the first failed fetch always leaves a retry scheduled.
C11_MissingRetryAlwaysFirst ==
    SerialEnded("MISSING_PLATFORM_DATA") =>
        /\ SerialLog.scheduled_retry_at =
              MissingRetryAt(SerialLog.attempt_count, SerialElapsed, sh.last.at)
        /\ SerialLog.attempt_count = 1 => SerialLog.scheduled_retry_at # NoTime

\* C11 amended: the same schedule; the first failed fetch leaves a retry
\* scheduled when it happens within 24 h of the submission, and none after.
C11_MissingRetry ==
    SerialEnded("MISSING_PLATFORM_DATA") =>
        /\ SerialLog.scheduled_retry_at =
              MissingRetryAt(SerialLog.attempt_count, SerialElapsed, sh.last.at)
        /\ SerialLog.attempt_count = 1 =>
              (SerialLog.scheduled_retry_at # NoTime <=> SerialElapsed <= 24 * 3600)

\* The fifth attempt of a report still inside its window found no data: no
\* retry is left, while the fourth had one.
C11_Witness ==
    /\ SerialEnded("MISSING_PLATFORM_DATA")
    /\ SerialLog.attempt_count = 5
    /\ SerialElapsed <= 24 * 3600
    /\ SerialLog.scheduled_retry_at = NoTime
    /\ sh.prev.status = "MISSING_PLATFORM_DATA"

\* C12: a report whose platform data is incomplete on every attempt gets
\* exactly one additional attempt: the first attempt leaves
\* scheduled_retry_at = now + 15 min, the second leaves it null.
C12_OneAdditionalAttempt ==
    SerialEnded("INCOMPLETE_PLATFORM_DATA") =>
        /\ SerialLog.attempt_count = 1 =>
              SerialLog.scheduled_retry_at = sh.last.at + 15 * 60
        /\ (SerialLog.attempt_count = 2
            /\ sh.prev.status = "INCOMPLETE_PLATFORM_DATA") =>
              SerialLog.scheduled_retry_at = NoTime

\* The growth-adjusted platform value of metric i in the classifier harness.
CsAdjusted(i) == apply_growth_allowance(cs.platform[i], cs.elapsed)

\* All three platform metrics were given to the latest classify call.
CsFullData == cs.called /\ \A i \in 1..3 : cs.platform[i] # NoMetric

\* Metric i is claimed above its adjusted platform value.
CsAbove(i) == cs.claimed[i] > CsAdjusted(i)

\* diff_pct of metric i is at least pct percent (1.0 against a platform value
\* of zero, 0.0 when both are zero).
CsDiffAtLeast(i, pct) ==
    IF CsAdjusted(i) = 0
    THEN cs.claimed[i] # 0 \/ pct <= 0
    ELSE Abs(cs.claimed[i] - CsAdjusted(i)) * 100 >= pct * CsAdjusted(i)

\* diff_pct of metric i is above pct percent.
CsDiffAbove(i, pct) ==
    IF CsAdjusted(i) = 0
    THEN cs.claimed[i] # 0 /\ pct < 100
    ELSE Abs(cs.claimed[i] - CsAdjusted(i)) * 100 > pct * CsAdjusted(i)

\* C13: with all three platform metrics present, classify returns
\* AFFILIATE_OVERCLAIMED / OVERCLAIM exactly when some metric is claimed above
\* its growth-adjusted platform value with diff_pct >= 0.20, however small the
\* other differences; the level is CRITICAL iff some such metric has
\* diff_pct >= 0.50, else HIGH; a claim below the adjusted platform value on
\* every metric is never AFFILIATE_OVERCLAIMED.
C13_OverclaimPrecedence ==
    CsFullData =>
        /\ cs.res.status = "AFFILIATE_OVERCLAIMED"
              <=> \E i \in 1..3 : CsAbove(i) /\ CsDiffAtLeast(i, 20)
        /\ cs.res.status = "AFFILIATE_OVERCLAIMED" =>
              /\ cs.res.trust_event = "overclaim"
              /\ cs.res.discrepancy_level =
                    IF \E i \in 1..3 : CsAbove(i) /\ CsDiffAtLeast(i, 50)
                    THEN "CRITICAL" ELSE "HIGH"
        /\ (\A i \in 1..3 : cs.claimed[i] < CsAdjusted(i)) =>
              cs.res.status # "AFFILIATE_OVERCLAIMED"

\* One metric is claimed exactly 20 % above the platform while another
\* differs by less than the base tolerance and the third not at all.
C13_Witness ==
    /\ CsFullData
    /\ cs.res.status = "AFFILIATE_OVERCLAIMED"
    /\ cs.res.discrepancy_level = "HIGH"
    /\ cs.claimed[1] = 120 /\ CsAdjusted(1) = 100
    /\ cs.claimed[2] = CsAdjusted(2)
    /\ cs.claimed[3] = CsAdjusted(3)

\* C14: with full data and a status that is neither MATCHED nor
\* AFFILIATE_OVERCLAIMED, status, level and trust event are the tier of the
\* largest diff_pct: (0.05, 0.10] low, (0.10, 0.20] medium, above 0.20 high;
\* without overclaim a largest diff_pct of at most 0.05 gives MATCHED /
\* PERFECT_MATCH with no level.
C14_TierOfMaxDiff ==
    (CsFullData /\ cs.res.status # "AFFILIATE_OVERCLAIMED") =>
        LET above(pct) == \E i \in 1..3 : CsDiffAbove(i, pct)
            tier == IF ~above(5) THEN <<"MATCHED", "perfect_match", None>>
                    ELSE IF ~above(10)
                    THEN <<"DISCREPANCY_LOW", "minor_discrepancy", "LOW">>
                    ELSE IF ~above(20)
                    THEN <<"DISCREPANCY_MEDIUM", "medium_discrepancy", "MEDIUM">>
                    ELSE <<"DISCREPANCY_HIGH", "high_discrepancy", "HIGH">>
        IN  <<cs.res.status, cs.res.trust_event, cs.res.discrepancy_level>> = tier

\* A claim exactly 20 % below the platform on one metric is a medium
\* discrepancy (the upper bound of the tier is inside it).
C14_Witness ==
    /\ CsFullData
    /\ cs.res.status = "DISCREPANCY_MEDIUM"
    /\ cs.claimed[1] = 80 /\ CsAdjusted(1) = 100
    /\ cs.claimed[2] = CsAdjusted(2)

\* The platform metrics the latest one-session run obtained: the adapter's
\* when the breaker allowed the fetch and the adapter returned a dict.
SerialObtained ==
    IF sh.last.fetch_attempts > 0 /\ sh.last.ret.code = None
    THEN sh.last.ret.data ELSE NoData

SerialProvided == Cardinality({i \in 1..3 : SerialObtained[i] # NoMetric})

\* C15: in every attempt confidence_ratio is the number of non-null platform
\* metrics over 3; with none the status is MISSING_PLATFORM_DATA, with one or
\* two INCOMPLETE_PLATFORM_DATA, whatever was claimed; both produce no trust
\* event and leave the affiliate's trust_score and accurate_submissions as
\* they were.
C15_ConfidenceAndPartial ==
    sh.last.at # NoTime =>
        LET c == sh.last.cls
            u == PostRow[ReportRow[SerialReport].post_id].user_id
        IN  /\ c.confidence_ratio.n * 3 = SerialProvided * c.confidence_ratio.d
            /\ SerialProvided = 0 => c.status = "MISSING_PLATFORM_DATA"
            /\ SerialProvided \in {1, 2} => c.status = "INCOMPLETE_PLATFORM_DATA"
            /\ SerialProvided < 3 =>
                  /\ c.trust_event = None
                  /\ users[u].trust_score = sh.last.trust_before
                  /\ users[u].accurate_submissions = sh.last.accurate_before
                  /\ SerialLog.trust_delta = 0

\* A run got one metric of three for a claim far above it, after a run that
\* had changed the trust score: incomplete, and the score stays.
C15_Witness ==
    /\ sh.last.at # NoTime
    /\ SerialProvided = 1
    /\ sh.claimed = <<250, 35, 4>>
    /\ sh.last.cls.status = "INCOMPLETE_PLATFORM_DATA"
    /\ sh.prev.status = "AFFILIATE_OVERCLAIMED"
    /\ users[1].trust_score = sh.last.trust_before

\* The latest one-session run reconciled the claim (100, 10, 1) against the
\* platform metrics (118, 12, 1), this long after the submission.
SerialScenarioB(elapsed_seconds) ==
    /\ sh.last.at # NoTime
    /\ sh.claimed = <<100, 10, 1>>
    /\ SerialObtained = <<118, 12, 1>>
    /\ SerialElapsed = elapsed_seconds

\* What the claim expects of that run: DISCREPANCY_MEDIUM with the trust event
\* MEDIUM_DISCREPANCY (delta -0.03 when the score has room for it) and no
\* alert created.
SerialMediumOutcome ==
    /\ sh.last.cls.status = "DISCREPANCY_MEDIUM"
    /\ sh.last.cls.trust_event = "medium_discrepancy"
    /\ sh.last.trust_before >= 3 =>
          /\ SerialLog.trust_delta = -3
          /\ users[1].trust_score = sh.last.trust_before - 3
    /\ Cardinality(alerts) = sh.last.alerts_before

\* C16 as stated: claim (100, 10, 1) against platform (118, 12, 1) with
\* elapsed_hours = 1 yields DISCREPANCY_MEDIUM / MEDIUM_DISCREPANCY (-0.03)
\* and no alert.
C16_MediumAtOneHour == SerialScenarioB(60 * 60) => SerialMediumOutcome

\* C16 amended: the same reconciliation with elapsed_hours = 0 yields
\* DISCREPANCY_MEDIUM / MEDIUM_DISCREPANCY (-0.03) and no alert; with
\* elapsed_hours = 1 the growth-adjusted platform metrics are (130, 13, 1)
\* and it yields DISCREPANCY_HIGH / HIGH_DISCREPANCY.
C16_MediumAtSubmission ==
    /\ SerialScenarioB(0) => SerialMediumOutcome
    /\ SerialScenarioB(60 * 60) =>
          /\ sh.last.cls.status = "DISCREPANCY_HIGH"
          /\ sh.last.cls.trust_event = "high_discrepancy"

\* The scenario ran right at submission, on an affiliate of default trust.
C16_Witness ==
    /\ SerialScenarioB(0)
    /\ sh.last.trust_before = 50
    /\ users[1].trust_score = 47
    /\ alerts = {}

\* A score plus the configured delta of an event, clipped to [0, 1].
ClippedApply(score, event) ==
    LET sum == score + DefaultDelta(event)
    IN  IF sum < 0 THEN 0 ELSE IF sum > 100 THEN 100 ELSE sum

\* C17: run_reconciliation called twice in a row on the same report with the
\* same claimed metrics, adapter output and elapsed time gives the same
\* status; each call adds exactly 1 to the log's attempt_count and changes
\* the affiliate's trust_score by exactly one clipped application of that
\* call's trust event.
C17_RepeatableRun ==
    sh.last.at # NoTime =>
        /\ SerialLog.attempt_count = sh.last.attempt_before + 1
        /\ users[1].trust_score =
              ClippedApply(sh.last.trust_before, sh.last.cls.trust_event)
        /\ (sh.prev.at = sh.last.at /\ sh.prev.ret = sh.last.ret) =>
              sh.prev.status = sh.last.cls.status

\* A step in which the fetch() of caller f returns because the breaker denied
\* the call.
DeniedStep(f) == fx'[f] # fx[f] /\ fx'[f].result = "denied"

\* C18 as stated: whenever the breaker denies the call for a platform, fetch
\* invokes the adapter zero times, records nothing on the breaker and returns
\* a failure outcome with error_code = 'circuit_open', partial_missing =
\* [views, clicks, conversions] and attempts = 0.
C18_DeniedIsCircuitOpen ==
    \A f \in DOMAIN fx :
        fx[f].result = "denied"
        => /\ fx[f].pc = "idle"
           /\ fx[f].calls = 0
           /\ fx[f].records = 0
           /\ fx[f].attempts = 0
           /\ fx[f].partial_missing = MetricNames
           /\ fx[f].last_error_code = "circuit_open"

\* C18 amended: whenever the breaker denies the call for a platform, fetch
\* invokes the adapter zero times, records nothing on the breaker (whose state
\* the denied call leaves as it was) and returns a failure outcome with
\* partial_missing = [views, clicks, conversions], attempts = 0 and error_code
\* = the reason the breaker gave: 'circuit_open' from an OPEN breaker,
\* 'half_open_probe_exhausted' from a HALF_OPEN breaker whose probes are used.
C18_DeniedHasBreakerReason ==
    [][\A f \in DOMAIN fx :
          DeniedStep(f)
          => /\ fx'[f].pc = "idle"
             /\ fx'[f].calls = 0
             /\ fx'[f].records = 0
             /\ fx'[f].attempts = 0
             /\ fx'[f].partial_missing = MetricNames
             /\ breaker_states' = breaker_states
             /\ fx'[f].last_error_code =
                   IF breaker_states[fx'[f].platform].state = "OPEN"
                   THEN "circuit_open" ELSE "half_open_probe_exhausted"]_vars

\* A fetch was denied by a HALF_OPEN breaker while three admitted fetches were
\* still calling the adapter.
C18_Witness ==
    \E f \in DOMAIN fx :
        /\ fx[f].result = "denied"
        /\ fx[f].pc = "idle"
        /\ fx[f].last_error_code = "half_open_probe_exhausted"
        /\ fx[f].attempts = 0
        /\ Cardinality({g \in DOMAIN fx : fx[g].pc = "loop"}) = half_open_probe_count

\* C19: in a single fetch that the breaker allows, the adapter is invoked
\* repeatedly until the first success or the first auth error and never more
\* than max_attempts times; every invocation records exactly one breaker
\* outcome, and the returned attempts equals the number of invocations: an
\* auth error on attempt k ends the fetch with error_code = auth_error and
\* attempts = k, and an adapter that always raises a non-auth error yields
\* attempts = max_attempts with the last error code.
C19_RetryLoop ==
    \A f \in DOMAIN fx :
        fx[f].result # "denied"
        => /\ fx[f].calls = fx[f].attempts
           /\ fx[f].records = fx[f].calls
           /\ fx[f].calls <= max_attempts
           /\ ~fx[f].after_end
           /\ fx[f].pc = "loop"
              => /\ fx[f].result = None
                 /\ fx[f].attempts < max_attempts
                 /\ fx[f].last_error_code # "auth_error"
           /\ fx[f].result = "success"
              => fx[f].pc = "idle" /\ fx[f].attempts >= 1
           /\ fx[f].result = "failure"
              => /\ fx[f].pc = "idle"
                 /\ fx[f].last_error_code \in AdapterCodes \ {None}
                 /\ fx[f].last_error_code # "auth_error"
                    => fx[f].attempts = max_attempts
                 /\ fx[f].last_error_code = "auth_error"
                    => fx[f].attempts >= 1

\* One fetch was ended by an auth error on its second attempt, another made
\* max_attempts attempts that all failed, the last one rate limited.
C19_Witness ==
    \E f, g \in DOMAIN fx :
        /\ fx[f].result = "failure"
        /\ fx[f].last_error_code = "auth_error"
        /\ fx[f].attempts = 2
        /\ fx[f].calls = 2
        /\ fx[g].result = "failure"
        /\ fx[g].last_error_code = "rate_limited"
        /\ fx[g].attempts = max_attempts
        /\ fx[g].records = max_attempts

\* An allow_call step for platform p (each fetch() makes exactly one).
AllowStep(p) ==
    /\ fetch_count' = fetch_count + 1
    /\ \E f \in DOMAIN fx : fx'[f] # fx[f] /\ fx'[f].platform = p

\* What C20 asks of an allow_call step for platform p.
C20_Step(p) ==
    LET st == breaker_states[p]
        st2 == breaker_states'[p]
        h == bh[p]
        h2 == bh'[p]
    IN  /\ (st.state = "OPEN" /\ now - st.opened_at >= open_cooldown_seconds)
           => /\ st2.state = "HALF_OPEN"
              /\ st2.half_open_probes = 1
              /\ h2.allowed
              /\ h2.admitted = 1
        /\ st.state = "HALF_OPEN"
           => /\ st2.state = "HALF_OPEN"
              /\ IF h.admitted < half_open_probe_count
                 THEN h2.allowed /\ h2.admitted = h.admitted + 1
                 ELSE /\ ~h2.allowed
                      /\ h2.reason = "half_open_probe_exhausted"
                      /\ h2.admitted = h.admitted

\* C20: once open_cooldown has elapsed on an OPEN breaker, allow_call moves it
\* to HALF_OPEN with the probe count reset, and from then until an outcome is
\* recorded it admits exactly half_open_probes (3) calls, the transitioning
\* call included, and denies every further call.  (bh[p].admitted counts the
\* calls admitted since the breaker entered HALF_OPEN.)
C20_HalfOpenProbes ==
    /\ [](\A p \in Platforms :
             breaker_states[p].state = "HALF_OPEN"
             => /\ bh[p].admitted = breaker_states[p].half_open_probes
                /\ bh[p].admitted >= 1
                /\ bh[p].admitted <= half_open_probe_count)
    /\ [][\A p \in Platforms : AllowStep(p) => C20_Step(p)]_vars

\* A HALF_OPEN breaker has admitted its three probes, none has recorded an
\* outcome yet, and the call after them was denied.
C20_Witness ==
    \E p \in Platforms :
        /\ breaker_states[p].state = "HALF_OPEN"
        /\ bh[p].admitted = half_open_probe_count
        /\ bh[p].allow_called
        /\ ~bh[p].allowed
        /\ bh[p].reason = "half_open_probe_exhausted"

\* C30: the queue priority label is a function of (trust bucket,
\* has_suspicion_flags) only: compute_priority returns 'high' whenever
\* has_suspicion_flags is true or trust_score < 0.50 (buckets low_trust and
\* critical), 'normal' for 0.50 <= trust_score < 0.75 without flags, and 'low'
\* for trust_score >= 0.75 without flags; it never returns a label missing
\* from the queue's priority map.  (Scores are in hundredths.)
C30_PriorityOfBucketAndFlags ==
    ps.called
    => /\ ps.label \in DOMAIN PriorityMap
       /\ ps.label = "high"
          <=> (ps.has_suspicion_flags \/ ps.trust_score < 50)
       /\ ps.label = "normal"
          <=> (~ps.has_suspicion_flags /\ ps.trust_score >= 50
               /\ ps.trust_score < 75)
       /\ ps.label = "low"
          <=> (~ps.has_suspicion_flags /\ ps.trust_score >= 75)
       /\ (ps.trust_score < 50)
          <=> bucket_for_priority(ps.trust_score) \in {"low_trust", "critical"}

\* compute_priority was called on the score 0.50 without flags (the lowest
\* score that is not 'high') and returned 'normal'.
C30_Witness ==
    /\ ps.called
    /\ ps.trust_score = 50
    /\ ~ps.has_suspicion_flags
    /\ ps.label = "normal"

\* The jobs of heap h that are due at time t.
DueIn(h, t) == {x \in h : x.ready_at <= t}

\* What a dequeue that found the jobs h queued at time t has to return: the
\* due job of the highest priority, the oldest of them; None if none is due.
NextDue(h, t) == IF DueIn(h, t) = {} THEN NoItem ELSE ReadyTop(DueIn(h, t))

\* C24: after PriorityDelayQueue.shutdown(), every enqueue fails with the
\* Shutdown error (RuntimeError "Queue shutdown") and adds nothing; dequeue
\* keeps returning the jobs that were already queued (ready ones, and
\* scheduled ones once due) in the normal order, and returns null as soon as
\* both heaps are empty.
C24_ShutdownDrains ==
    /\ [](shutdown
          => /\ enq_last.called => enq_last.error = "RuntimeError"
             /\ \A c \in Consumers :
                   /\ cons[c].returned
                      => /\ cons[c].item = NextDue(cons[c].before, now)
                         /\ cons[c].item # NoItem
                            => cons[c].item \notin ready_heap \cup scheduled_heap
                   /\ (cons[c].pc = "waiting" /\ depth = 0) => Awake(c))
    /\ [][(shutdown /\ enq_last'.called)
          => UNCHANGED <<ready_heap, scheduled_heap, seq_counter>>]_vars

\* After shutdown() a dequeue has returned the last job enqueued, which had
\* been enqueued with a delay.
C24_Witness ==
    /\ shutdown
    /\ \E c \in Consumers :
          /\ cons[c].returned
          /\ cons[c].item # NoItem
          /\ cons[c].item.ready_at > cons[c].item.enqueued_at
          /\ cons[c].item.seq = seq_counter

\* C25: when shutdown() is called, every consumer currently blocked in
\* dequeue(block=True), with or without a timeout, and whether or not
\* not-yet-due scheduled jobs remain, is woken and returns null rather than
\* staying blocked.  (at_shutdown marks the calls that were asleep when
\* shutdown() was called; such a call is either about to run, or has
\* returned null.)
C25_ShutdownWakesAll ==
    \A c \in Consumers :
        cons[c].at_shutdown
        => /\ cons[c].pc = "waiting" => cons[c].notified
           /\ cons[c].returned => cons[c].item = NoItem

\* C26: dequeue(block=True, timeout=t) always returns by the time t has
\* elapsed: it returns a job if one is or becomes ready before the deadline,
\* and null otherwise, including when scheduled jobs exist whose ready_at
\* lies after the deadline and when other threads enqueue only delayed jobs
\* meanwhile; a non-blocking dequeue with nothing ready returns null
\* immediately.  (A consumer whose wait has ended runs before the clock moves
\* on.)
C26_TimeoutBound ==
    \A c \in Consumers :
        /\ (cons[c].pc = "waiting" /\ cons[c].end_time # NoTime)
           => /\ now <= cons[c].end_time
              /\ cons[c].wake_at # NoTime
              /\ cons[c].wake_at <= cons[c].end_time
        /\ (cons[c].returned /\ cons[c].block /\ cons[c].end_time # NoTime)
           => /\ now <= cons[c].end_time
              /\ cons[c].item = NextDue(cons[c].before, now)
              /\ cons[c].item = NoItem
                 => (now = cons[c].end_time \/ (shutdown /\ cons[c].before = {}))
        /\ cons[c].pc = "waiting" => cons[c].block
        /\ (cons[c].returned /\ ~cons[c].block)
           => /\ ~cons[c].slept
              /\ cons[c].item = NextDue(cons[c].before, now)

\* A dequeue with a timeout slept and has returned null at its deadline while
\* a scheduled job whose ready_at lies after the deadline stays queued.
C26_Witness ==
    \E c \in Consumers :
        /\ cons[c].returned
        /\ cons[c].block
        /\ cons[c].slept
        /\ cons[c].end_time = now
        /\ cons[c].item = NoItem
        /\ \E x \in scheduled_heap : x.ready_at > cons[c].end_time

\* C23: PriorityDelayQueue.depth() never exceeds max_in_memory: an enqueue
\* issued while ready + scheduled >= max_in_memory is rejected with
\* CapacityExceeded (OverflowError "Queue capacity exceeded"), one with an
\* unknown priority label with UnknownPriority (ValueError "Unknown
\* priority"), and a rejected enqueue leaves both heaps and the sequence
\* counter unchanged.
C23_CapacityBound ==
    /\ [](/\ depth <= max_in_memory
          /\ (enq_last.called /\ ~shutdown)
             => /\ enq_last.error = "OverflowError"
                   <=> enq_last.depth_before >= max_in_memory
                /\ enq_last.error = "ValueError"
                   <=> (/\ enq_last.depth_before < max_in_memory
                        /\ enq_last.priority \notin DOMAIN PriorityMap)
                /\ enq_last.error \in {None, "OverflowError", "ValueError"})
    /\ [][enq_last'.called
          => IF enq_last'.error # None
             THEN UNCHANGED <<ready_heap, scheduled_heap, seq_counter>>
             ELSE /\ Cardinality(ready_heap') + Cardinality(scheduled_heap')
                       = depth + 1
                  /\ seq_counter' = seq_counter + 1]_vars

\* The queue holds max_in_memory jobs and the enqueue just made, with a label
\* of the priority map, was rejected for that.
C23_Witness ==
    /\ depth = max_in_memory
    /\ enq_last.called
    /\ enq_last.priority \in DOMAIN PriorityMap
    /\ enq_last.error = "OverflowError"

\* The time before which a returned item must not have been returned: the
\* time of its enqueue plus the delay it was enqueued with.
NotBefore(item) == item.enqueued_at + DelayOf(item.job)

\* C22, on the in-memory queue: what the dequeue that has just returned did.
C22_Memory ==
    deq_last.called
    => /\ deq_last.item # NoItem => now >= NotBefore(deq_last.item)
       /\ (/\ deq_last.pre # {}
           /\ \A x \in deq_last.pre : x.ready_at > now)
          => /\ deq_last.item = NoItem
             /\ ready_heap = {}
             /\ scheduled_heap = deq_last.pre
       /\ (\E x \in deq_last.pre : x.ready_at <= now)
          => /\ deq_last.item \in deq_last.pre
             /\ deq_last.item.ready_at <= now
             /\ deq_last.item \notin ready_heap \cup scheduled_heap

\* C22, on the Redis queue: what the dequeue that has just returned did.
C22_Redis ==
    rq.last.called
    => /\ rq.last.item # NoItem => now >= NotBefore(rq.last.item)
       /\ (/\ rq.last.ready_before = <<>>
           /\ rq.last.scheduled_before # {}
           /\ \A e \in rq.last.scheduled_before : e.score > now)
          => /\ rq.last.item = NoItem
             /\ rq.ready = <<>>
             /\ rq.scheduled = rq.last.scheduled_before
       /\ (/\ rq.last.ready_before = <<>>
           /\ \E e \in rq.last.scheduled_before : e.score <= now)
          => /\ \E e \in rq.last.scheduled_before :
                   /\ e.score <= now
                   /\ e.member = serialize_job(rq.last.item)
             /\ \A e \in rq.scheduled : e.score > now

\* C22: for both PriorityDelayQueue and RedisQueue, a job enqueued with
\* delay_seconds = d > 0 at time t is never returned by any dequeue before
\* time t + d; while only not-yet-due scheduled jobs are queued, a
\* non-blocking dequeue returns null and leaves the job counted in
\* 'scheduled' (not 'ready'); once due, the next dequeue promotes and returns
\* it.
C22_DelayHonoured == C22_Memory /\ C22_Redis

\* The Redis queue has returned, at the very second it became due, a job that
\* was enqueued with a delay and sat alone in the sorted set.
C22_Witness ==
    /\ rq.last.called
    /\ rq.last.item # NoItem
    /\ DelayOf(rq.last.item.job) > 0
    /\ now = NotBefore(rq.last.item)
    /\ rq.last.ready_before = <<>>
    /\ Cardinality(rq.last.scheduled_before) = 1

\* The latest one-session run added an alert to the table.
SerialCreated == Cardinality(alerts) > sh.last.alerts_before

\* The alerts of the log of the one-session report.
SerialAlerts == {a \in alerts : a.reconciliation_log_id = SerialLog.id}

\* C27: a run that ends MISSING_PLATFORM_DATA while a retry is scheduled
\* creates no alert; a run that ends MISSING_PLATFORM_DATA with no retry
\* scheduled, on a log without an alert, creates one alert of type
\* MISSING_DATA, category SYSTEM_HEALTH and severity MEDIUM; a MISSING_DATA
\* alert is created by no other run; and a run that ends MATCHED,
\* DISCREPANCY_LOW, DISCREPANCY_MEDIUM or INCOMPLETE_PLATFORM_DATA creates no
\* alert.
C27_MissingDataAlert ==
    sh.last.at # NoTime =>
        LET status == sh.last.cls.status
            pending == SerialLog.scheduled_retry_at # NoTime
        IN  /\ status = "MISSING_PLATFORM_DATA" /\ pending => ~SerialCreated
            /\ status = "MISSING_PLATFORM_DATA" /\ ~pending
                   /\ sh.last.alerts_before = 0
               => /\ SerialCreated
                  /\ Cardinality(alerts) = 1
                  /\ \A a \in alerts :
                        /\ a.reconciliation_log_id = SerialLog.id
                        /\ a.alert_type = "MISSING_DATA"
                        /\ a.category = "SYSTEM_HEALTH"
                        /\ a.severity = "MEDIUM"
            /\ SerialCreated /\ (\E a \in alerts : a.alert_type = "MISSING_DATA")
               => status = "MISSING_PLATFORM_DATA" /\ ~pending
            /\ status \in {"MATCHED", "DISCREPANCY_LOW", "DISCREPANCY_MEDIUM",
                           "INCOMPLETE_PLATFORM_DATA"} => ~SerialCreated

\* The fifth failed fetch in a row within the retry window: the attempt that
\* exhausts the retries creates the alert.
C27_Witness ==
    /\ SerialEnded("MISSING_PLATFORM_DATA")
    /\ sh.last.attempt_before = 4
    /\ SerialElapsed <= 24 * 3600
    /\ SerialLog.scheduled_retry_at = NoTime
    /\ SerialCreated
    /\ \E a \in alerts : a.alert_type = "MISSING_DATA"

\* The log of the one-session report carries the alert of rule 1 for its
\* present discrepancy level.
SerialHasFraudAlert ==
    \E a \in SerialAlerts :
        /\ a.alert_type = "HIGH_DISCREPANCY"
        /\ a.category = "FRAUD"
        /\ a.severity = (IF SerialLog.discrepancy_level = "CRITICAL"
                         THEN "CRITICAL" ELSE "HIGH")

\* The trust score after the latest one-session run is the score before it
\* lowered by the overclaim delta, clipped at min_score.
SerialTrustLowered ==
    users[PostRow[ReportRow[SerialReport].post_id].user_id].trust_score
        = Max(min_score, sh.last.trust_before - 10)

\* C28: whenever a run ends with status AFFILIATE_OVERCLAIMED, after commit
\* its log has an alert of type HIGH_DISCREPANCY and category FRAUD whose
\* severity is CRITICAL if discrepancy_level is CRITICAL and HIGH otherwise,
\* and the trust score of the affiliate has been lowered by 0.10, clipped
\* at 0.
C28_OverclaimAlertAndTrust ==
    SerialEnded("AFFILIATE_OVERCLAIMED") =>
        SerialHasFraudAlert /\ SerialTrustLowered

\* Alert b was in the table when alert a was created, for the same affiliate
\* and platform, with type HIGH_DISCREPANCY and created within the repeat
\* window before a.
RepeatOf(a, b) ==
    /\ b.id < a.id
    /\ b.user_id = a.user_id
    /\ b.platform_id = a.platform_id
    /\ b.alert_type = "HIGH_DISCREPANCY"
    /\ a.created_at - b.created_at <= repeat_overclaim_window_hours * 3600

\* C29: the alert created for a DISCREPANCY_HIGH log (the only alert of
\* category DATA_QUALITY) has type HIGH_DISCREPANCY, and its severity is
\* CRITICAL if and only if another HIGH_DISCREPANCY alert for the same
\* affiliate and platform was created within the 6 hours before it;
\* otherwise it is HIGH.
C29_RepeatEscalation ==
    \A a \in alerts :
        a.category = "DATA_QUALITY" =>
            /\ a.alert_type = "HIGH_DISCREPANCY"
            /\ \E l \in logs : l.id = a.reconciliation_log_id
            /\ a.severity = (IF \E b \in alerts : RepeatOf(a, b)
                             THEN "CRITICAL" ELSE "HIGH")

\* A second DISCREPANCY_HIGH alert of the affiliate on the platform is
\* created in the same hour as the first and is escalated.
C29_Witness ==
    \E a, b \in alerts :
        /\ a.category = "DATA_QUALITY" /\ a.severity = "CRITICAL"
        /\ b.category = "DATA_QUALITY" /\ b.severity = "HIGH"
        /\ RepeatOf(a, b)
        /\ a.reconciliation_log_id # b.reconciliation_log_id

\* A fetch recorded an outcome of a call to platform p in this step.
RecordStep(p) ==
    \E f \in DOMAIN fx : /\ fx[f].platform = p
                         /\ fx'[f].records = fx[f].records + 1

\* The outcome recorded in this step is a success.
SuccessStep(p) ==
    \E f \in DOMAIN fx : /\ fx[f].platform = p
                         /\ fx'[f].records = fx[f].records + 1
                         /\ fx'[f].result = "success"

\* record_success in HALF_OPEN: CLOSED, counters and opened_at reset.
C21_SuccessCloses ==
    [][\A p \in Platforms :
          breaker_states[p].state = "HALF_OPEN" /\ SuccessStep(p)
          => breaker_states'[p] = [failures |-> 0, state |-> "CLOSED",
                                   opened_at |-> NoTime, half_open_probes |-> 0]]_vars

\* A CLOSED breaker opens only on failure_threshold consecutive failures.
C21_ThresholdToOpen ==
    [][\A p \in Platforms :
          breaker_states[p].state = "CLOSED" /\ breaker_states'[p].state = "OPEN"
          => bh'[p].consec >= failure_threshold]_vars

\* record_failure in HALF_OPEN: OPEN with opened_at = now.
C21_FailureReopens ==
    [][\A p \in Platforms :
          breaker_states[p].state = "HALF_OPEN" /\ RecordStep(p) /\ ~SuccessStep(p)
          => /\ breaker_states'[p].state = "OPEN"
             /\ breaker_states'[p].opened_at = now]_vars

\* After a failure in HALF_OPEN, calls are denied until open_cooldown has
\* elapsed since that failure.
C21_DeniedForNewCooldown ==
    [][\A p \in Platforms :
          (/\ AllowStep(p)
           /\ bh[p].reopened_at # NoTime
           /\ now - bh[p].reopened_at < open_cooldown_seconds)
          => ~bh'[p].allowed]_vars

\* C21: in HALF_OPEN the first recorded outcome decides the state:
\* record_success moves the breaker to CLOSED with failures = 0,
\* half_open_probes = 0 and opened_at cleared, so that failure_threshold
\* consecutive failures are needed to open it again; record_failure moves it
\* back to OPEN with opened_at = now, so that calls are denied for a full new
\* open_cooldown.
C21_HalfOpenOutcomeDecides ==
    /\ C21_SuccessCloses
    /\ C21_ThresholdToOpen
    /\ C21_FailureReopens
    /\ C21_DeniedForNewCooldown

\* An adapter call for platform p is made in this step.
AdapterCallStep(p) ==
    \E f \in DOMAIN fx : /\ fx[f].platform = p
                         /\ fx'[f].platform = p
                         /\ fx'[f].calls = fx[f].calls + 1

\* The breaker of platform p is OPEN and its cooldown has not elapsed.
OpenInCooldown(p) ==
    /\ breaker_states[p].state = "OPEN"
    /\ now - breaker_states[p].opened_at < open_cooldown_seconds

\* C39: while the breaker of a platform is OPEN and its cooldown has not
\* elapsed, no fetch makes an adapter call for the platform, a fetch whose own
\* failed attempts opened the breaker included; and the breaker leaves OPEN
\* only through the cooldown-elapsed transition to HALF_OPEN.
C39_NoCallWhileOpen ==
    /\ [][\A p \in Platforms : OpenInCooldown(p) => ~AdapterCallStep(p)]_vars
    /\ [][\A p \in Platforms :
             breaker_states[p].state = "OPEN" /\ breaker_states'[p].state # "OPEN"
             => /\ breaker_states'[p].state = "HALF_OPEN"
                /\ now - breaker_states[p].opened_at >= open_cooldown_seconds]_vars

\* The trust score stored for the affiliate of the one-session report.
StoredTrust ==
    users[PostRow[ReportRow[SerialReport].post_id].user_id].trust_score

\* C36: for every run that produces a trust event, on an affiliate whose
\* stored trust_score is s in [0, 1], s = 0 included, the score stored after
\* the commit is s plus the delta of the event clipped to [0, 1], so that a
\* negative event never raises the score and perfect_match raises it by at
\* most 0.01; and the trust_delta written to the log is the stored score
\* after the run minus s.
C36_StoredScoreClipped ==
    (sh.last.at # NoTime /\ sh.last.cls.trust_event # None) =>
        LET s == sh.last.trust_before
            delta == EventsCfg[sh.last.cls.trust_event]
        IN  /\ StoredTrust = Max(0, Min(100, s + delta))
            /\ delta < 0 => StoredTrust <= s
            /\ StoredTrust <= s + 1
            /\ SerialLog.trust_delta = StoredTrust - s

\* C37: the retry chain of a report terminates: whatever the adapter returns
\* from attempt to attempt, every attempt adds one to attempt_count, an
\* attempt leaves scheduled_retry_at non-null only while attempt_count is at
\* most max_attempts - 1 = 4, and every attempt at which attempt_count is 5 or
\* more sets scheduled_retry_at to null.
C37_RetryChainEnds ==
    sh.last.at # NoTime =>
        /\ SerialLog.attempt_count = sh.last.attempt_before + 1
        /\ SerialLog.scheduled_retry_at # NoTime
           => SerialLog.attempt_count <= missing_max_attempts - 1
        /\ SerialLog.attempt_count >= missing_max_attempts
           => SerialLog.scheduled_retry_at = NoTime

\* The fifth attempt on a report, inside the retry window, after an attempt
\* with incomplete data and one with missing data: it fails as well and no
\* retry is scheduled.
C37_Witness ==
    /\ SerialEnded("MISSING_PLATFORM_DATA")
    /\ SerialLog.attempt_count = missing_max_attempts
    /\ SerialElapsed <= window_hours * 3600
    /\ sh.prev.status \in {"INCOMPLETE_PLATFORM_DATA", "MATCHED"}
    /\ SerialLog.scheduled_retry_at = NoTime

\* The metrics whose platform value was null or absent in the fetch of the
\* latest one-session run.
SerialAbsent == {MetricSeq[i] : i \in {j \in 1..3 : sh.last.metrics[j] = NoMetric}}

\* C40: after any attempt, the missing_fields recorded on the log and returned
\* in the summary is exactly the set of metrics whose platform value was null
\* or absent in that fetch, each name listed once; it is empty when all three
\* metrics were provided.
C40_MissingFieldsExact ==
    sh.last.at # NoTime =>
        LET mf == SerialLog.missing_fields
        IN  /\ sh.last.cls.missing_fields = mf
            /\ {mf[i] : i \in DOMAIN mf} = SerialAbsent
            /\ Len(mf) = Cardinality(SerialAbsent)

\* The breaker denied the fetch of the latest one-session run.
SerialDenied == sh.last.at # NoTime /\ sh.last.fetch_attempts = 0

\* C32: for an existing report, whenever the adapter fails in any way
\* _call_adapter tells apart (import error, missing function, an exception
\* naming a rate limit, an auth failure or anything else, a return value that
\* is not a dict) or the breaker denies the call, run_reconciliation commits
\* the log with status MISSING_PLATFORM_DATA, one more attempt, the error code
\* of the fetch and its rate_limited flag, and returns its summary.
C32_FetchErrorsCaptured ==
    (sh.last.at # NoTime /\ (sh.last.ret.code # None \/ SerialDenied)) =>
        /\ eh.commits >= 1
        /\ Cardinality(LogsOf(SerialReport)) = 1
        /\ SerialLog.status = "MISSING_PLATFORM_DATA"
        /\ sh.last.cls.status = "MISSING_PLATFORM_DATA"
        /\ SerialLog.attempt_count = sh.last.attempt_before + 1
        /\ SerialLog.last_attempt_at = sh.last.at
        /\ SerialLog.error_code \in
               {"adapter_missing", "invalid_adapter_return", "rate_limited",
                "auth_error", "fetch_error", "circuit_open",
                "half_open_probe_exhausted"}
        /\ IF SerialDenied
           THEN /\ SerialLog.error_code \in {"circuit_open",
                                             "half_open_probe_exhausted"}
                /\ ~SerialLog.rate_limited
           ELSE /\ SerialLog.error_code = sh.last.ret.code
                /\ SerialLog.rate_limited = (sh.last.ret.code = "rate_limited")

\* After a run in which the adapter returned a list or had no
\* fetch_post_metrics, the third or a later run of the report is denied by
\* the breaker the earlier failures opened.
C32_Witness ==
    /\ SerialDenied
    /\ SerialLog.error_code = "circuit_open"
    /\ sh.prev.ret.code \in {"invalid_adapter_return", "adapter_missing"}
    /\ SerialLog.attempt_count >= 3

(***************************************************************************)
(* Submission endpoints (api/v1/endpoints/submissions.py) and the data     *)
(* quality rules (services/data_quality_validators.py).  Ratios are        *)
(* percentages; a set of flags is the set of its rule keys, and a NULL     *)
(* suspicion_flags column is the empty set (both are falsy where the       *)
(* column is read).                                                        *)
(***************************************************************************)
max_ctr_pct == 35
max_cvr_pct == 60
min_views_for_ctr == 100
min_clicks_for_cvr == 20
evidence_required_views == 50000
max_growth_pct == 5
monotonic_tolerance_div == 100

NoReport == [id |-> 0, post_id |-> 0, claimed |-> <<0, 0, 0>>,
             has_evidence |-> FALSE, suspicion_flags |-> {},
             submitted_at |-> 0]

\* _rule_non_monotonic.check and _rule_spike.maybe for one metric
rule_decrease(name, new, old) ==
    IF old > 0 /\ new + (old \div monotonic_tolerance_div) < old
    THEN {name \o "_decrease"} ELSE {}

rule_spike(name, new, old) ==
    IF old > 0 /\ new - old > max_growth_pct * old
    THEN {name \o "_spike"} ELSE {}

\* evaluate_submission: previous is the latest report of the post, or
\* NoReport for a new post.
evaluate_submission(previous, claimed, has_evidence) ==
    LET views == claimed[1]
        clicks == claimed[2]
        conversions == claimed[3]
        high_ctr == IF views >= min_views_for_ctr
                       /\ clicks * 100 > max_ctr_pct * views
                    THEN {"high_ctr"} ELSE {}
        high_cvr == IF clicks >= min_clicks_for_cvr
                       /\ conversions * 100 > max_cvr_pct * clicks
                    THEN {"high_cvr"} ELSE {}
        metric_order == IF ~(views >= clicks /\ clicks >= conversions)
                        THEN {"metric_order_violation"} ELSE {}
        evidence == IF views >= evidence_required_views /\ ~has_evidence
                    THEN {"missing_evidence"} ELSE {}
        history == IF previous = NoReport THEN {}
                   ELSE UNION {rule_decrease(MetricSeq[i], claimed[i],
                                             previous.claimed[i])
                               \cup rule_spike(MetricSeq[i], claimed[i],
                                               previous.claimed[i]) :
                               i \in 1 .. 3}
    IN  high_ctr \cup high_cvr \cup metric_order \cup evidence \cup history

\* request bodies of the submission endpoints
Submissions ==
    { [claimed |-> <<100, 10, 1>>, has_evidence |-> TRUE],
      [claimed |-> <<100, 50, 1>>, has_evidence |-> TRUE],
      [claimed |-> <<50000, 10, 1>>, has_evidence |-> FALSE] }

MaxSubmissions == 3

ReportsOfPost(p) == {r \in affiliate_reports : r.post_id = p}

SubmittedPosts == {r.post_id : r \in affiliate_reports}

\* The AffiliateReport both endpoints build (lines 171-179, 392-400):
\* suspicion_flags is not among the columns set, and stays NULL.
NewReport(p, s) ==
    [id |-> NewId(affiliate_reports), post_id |-> p, claimed |-> s.claimed,
     has_evidence |-> s.has_evidence, suspicion_flags |-> {},
     submitted_at |-> now]

\* what both endpoints do after building the report: add, commit, log
\* "Reconciliation job queued" and reply.  Nothing is put on the queue.
PersistReport(p, s) ==
    /\ Cardinality(affiliate_reports) < MaxSubmissions
    /\ affiliate_reports' = affiliate_reports \cup {NewReport(p, s)}
    /\ deq_last' = NoDequeue
    /\ UNCHANGED <<now, ready_heap, scheduled_heap, seq_counter, wvars, ts, cs,
                   sh, ps, last_exceptions, bvars, evars>>

\* POST /submissions/: a new post and its first report
submit_post(s) ==
    PersistReport(1 + Cardinality(SubmittedPosts), s)

\* PUT /submissions/{post_id}/metrics: a further report of an existing post
update_post_metrics(p, s) ==
    /\ p \in SubmittedPosts
    /\ PersistReport(p, s)

\* _loop lines 59-63: dequeue(timeout=5.0) found nothing ready; continue.
WorkerIdlePoll(w) ==
    /\ ws[w].pc = "idle"
    /\ DequeuePop(ready_heap, scheduled_heap, now).item = NoItem
    /\ deq_last' = [called |-> TRUE, item |-> NoItem,
                    pre |-> ready_heap \cup scheduled_heap, at |-> now]
    /\ UNCHANGED <<now, ready_heap, scheduled_heap, seq_counter, wvars, hvars,
                   bvars, evars>>

NextSubmit ==
    \/ \E s \in Submissions : submit_post(s)
    \/ \E p \in 1 .. MaxSubmissions, s \in Submissions : update_post_metrics(p, s)
    \/ \E w \in Workers : WorkerIdlePoll(w)
    \/ QueueTick

SpecSubmit == InitEngine /\ [][NextSubmit]_vars

\* the jobs on the queue for report r
JobsOf(r) == {i \in ready_heap \cup scheduled_heap : i.job = r}

PreviousOf(row) ==
    LET older == {o \in ReportsOfPost(row.post_id) : o.id < row.id}
    IN  IF older = {} THEN NoReport
        ELSE CHOOSE o \in older : \A x \in older : x.id <= o.id

\* C31: every report the submission endpoints persisted has the flags of
\* evaluate_submission stored in suspicion_flags, and its reconciliation is
\* under way: a log for it exists, a worker is processing it, or exactly one
\* job for it is on the queue, ready since the moment it was enqueued
\* (delay_seconds = 0) with priority compute_priority(trust, has flags).
C31_SubmissionReconciled ==
    \A row \in affiliate_reports :
        /\ row.suspicion_flags
             = evaluate_submission(PreviousOf(row), row.claimed, row.has_evidence)
        /\ \/ LogsOf(row.id) # {}
           \/ \E w \in Workers : ws[w].report = row.id
           \/ /\ Cardinality(JobsOf(row.id)) = 1
              /\ \A i \in JobsOf(row.id) :
                    /\ i \in ready_heap
                    /\ i.ready_at = i.enqueued_at
                    /\ i.priority_label
                         = compute_priority(TrustOr(users[1].trust_score),
                                            row.suspicion_flags # {})

(***************************************************************************)
(* The worker loop on jobs that fail.  Besides jobs for the reports that   *)
(* exist, the queue is given a job for a report id with no row and an item *)
(* that is not a ReconciliationJob.                                        *)
(***************************************************************************)
UnknownReport == 3
NotAJob == -1
MaxWorkerJobs == 3

\* main.enqueue_reconciliation with its default priority and delay
enqueue_reconciliation(job) ==
    /\ seq_counter < MaxWorkerJobs
    /\ QueuePush(job, "normal", 0)
    /\ UNCHANGED <<now, deq_last, wvars, hvars, bvars, evars>>

\* _loop lines 59-65: the dequeued item is not a ReconciliationJob; it is
\* logged and the loop continues.
WorkerSkip(w) ==
    /\ ws[w].pc = "idle"
    /\ LET d == DequeuePop(ready_heap, scheduled_heap, now)
       IN  /\ d.item # NoItem
           /\ d.item.job = NotAJob
           /\ ready_heap' = d.ready
           /\ scheduled_heap' = d.scheduled
    /\ UNCHANGED <<now, seq_counter, deq_last, wvars, hvars, bvars, evars>>

\* the failed job leaves no diagnostic
WorkerRaiseUnrecorded(w) ==
    /\ ws[w].pc = "idle"
    /\ LET d == DequeuePop(ready_heap, scheduled_heap, now)
       IN  /\ d.item # NoItem
           /\ d.item.job # NotAJob
           /\ d.item.job \notin Reports
           /\ ready_heap' = d.ready
           /\ scheduled_heap' = d.scheduled
    /\ UNCHANGED <<now, seq_counter, deq_last, wvars, hvars, bvars, evars>>

\* _process lines 71-87 when run_reconciliation raises ValueError at lines
\* 98-99 (no row for the report id): the diagnostic is recorded and the
\* session closed; it never wrote, so it holds no lock.
WorkerRaise(w) ==
    /\ ws[w].pc = "idle"
    /\ LET d == DequeuePop(ready_heap, scheduled_heap, now)
       IN  /\ d.item # NoItem
           /\ d.item.job # NotAJob
           /\ d.item.job \notin Reports
           /\ ready_heap' = d.ready
           /\ scheduled_heap' = d.scheduled
           /\ last_exceptions' = Append(last_exceptions,
                                        Diagnostic(d.item.job, "ValueError"))
    /\ UNCHANGED <<now, seq_counter, deq_last, wvars, ts, cs, sh, ps,
                   affiliate_reports, bvars, evars>>

\* the dequeued job names a report that exists
WorkerStart(w) ==
    /\ DequeuePop(ready_heap, scheduled_heap, now).item.job \in Reports
    /\ WorkerDequeue(w)

\* everything worker w can do
WorkerStep(w) ==
    \/ WorkerSkip(w)
    \/ WorkerRaise(w)
    \/ WorkerStart(w)
    \/ EnsureInsert(w)
    \/ \E ret \in AdapterReturns : Fetch(w, ret)
    \/ Flush(w)
    \/ AlertCheck(w)
    \/ Commit(w)
    \/ LockTimeout(w)

NextWorker ==
    \/ \E job \in {1, UnknownReport, NotAJob} : enqueue_reconciliation(job)
    \/ \E w \in Workers : WorkerSkip(w)
    \/ \E w \in Workers : WorkerRaise(w)
    \/ \E w \in Workers : WorkerStart(w)
    \/ \E w \in Workers : EnsureInsert(w)
    \/ \E w \in Workers, ret \in AdapterReturns : Fetch(w, ret)
    \/ \E w \in Workers : Flush(w)
    \/ \E w \in Workers : AlertCheck(w)
    \/ \E w \in Workers : Commit(w)
    \/ \E w \in Workers : LockTimeout(w)

\* the worker threads keep being scheduled
SpecWorker ==
    InitEngine /\ [][NextWorker]_vars /\ WF_vars(\E w \in Workers : WorkerStep(w))

Queued == ready_heap \cup scheduled_heap

\* worker w's run of a job ends in this step without a commit
FailedStep(w) ==
    \/ ws[w].pc # "idle" /\ ws'[w].pc = "idle" /\ eh'.commits = eh.commits
    \/ /\ ws[w].pc = "idle" /\ ws'[w].pc = "idle"
       /\ \E i \in Queued \ Queued' : i.job \notin Reports \cup {NotAJob}

\* a worker takes an item that is not a job
SkipStep ==
    \E i \in Queued \ Queued' : i.job = NotAJob

\* C33: a run that raises adds one diagnostic entry for its report and leaves
\* the worker idle with its session closed (it holds no write lock); an item
\* that is not a job is dropped with no diagnostic and no worker leaving the
\* loop; and whenever items are queued or jobs are being processed, the
\* queue is eventually empty with every job finished, whatever failed before.
C33_WorkerSurvivesFailures ==
    /\ [][\A w \in Workers :
            FailedStep(w) =>
              /\ Len(last_exceptions') = Len(last_exceptions) + 1
              /\ last_exceptions'[Len(last_exceptions')].report_id
                   \in {ws[w].report} \cup {i.job : i \in Queued \ Queued'}
              /\ db_writer' # w]_vars
    /\ [][SkipStep => last_exceptions' = last_exceptions /\ ws' = ws]_vars
    /\ (Queued # {} \/ \E w \in Workers : ws[w].pc # "idle")
          ~> (Queued = {} /\ \A w \in Workers : ws[w].pc = "idle")

\* a job for a report that exists was committed after an earlier job raised
\* and an item that is not a job was skipped
C33_Witness ==
    /\ last_exceptions = <<Diagnostic(UnknownReport, "ValueError")>>
    /\ eh.commits = 1
    /\ seq_counter = 3
    /\ Queued = {}
    /\ \A w \in Workers : ws[w].pc = "idle"

\* the jobs a RedisQueue dequeue found ready: those on the ready list and
\* the scheduled ones that were due
RedisWaiting ==
    {deserialize_job(rq.last.ready_before[i]) :
        i \in 1 .. Len(rq.last.ready_before)}
    \cup {deserialize_job(e.member) :
            e \in {x \in rq.last.scheduled_before : x.score <= now}}

\* the position of a job among the enqueue calls
EnqueueNumber(item) == item.job \div (MaxDelay + 1)

\* C34: the job a RedisQueue dequeue returns has the lowest priority value of
\* the jobs that were ready, and among those of its priority it is the one
\* enqueued first.
C34_RedisPriorityThenFifo ==
    (rq.last.called /\ rq.last.item # NoItem)
    => \A y \in RedisWaiting :
          /\ y.priority_value >= rq.last.item.priority_value
          /\ y.priority_value = rq.last.item.priority_value
             => EnqueueNumber(y) >= EnqueueNumber(rq.last.item)

(***************************************************************************)
(* Consumers that only make blocking calls without timeout, producers and  *)
(* the clock.  A consumer whose wait has ended runs again, and time goes   *)
(* on.                                                                     *)
(***************************************************************************)
NextBlocked ==
    \/ \E d \in 0 .. MaxDelay : WaitEnqueue("normal", d)
    \/ \E c \in Consumers : DequeueCall(c, TRUE, NoTime)
    \/ \E c \in Consumers : DequeueResume(c)
    \/ WaitTick

SpecBlocked ==
    /\ InitWait /\ [][NextBlocked]_vars
    /\ WF_vars(\E c \in Consumers : DequeueResume(c))
    /\ WF_vars(WaitTick)

\* job number n is on the queue and due
DueJob(n) == \E i \in ready_heap \cup scheduled_heap : i.seq = n /\ i.ready_at <= now

SomeoneWaiting == \E c \in Consumers : cons[c].pc = "waiting"

ReturnedNow ==
    {cons'[c].item : c \in {d \in Consumers :
                              cons'[d].returned /\ cons'[d].item # NoItem}}

\* the items accepted in the step taken
AcceptedNow == {i \in Queued' : i.seq > seq_counter}

\* C38: the two heaps never share an item and no two items share a sequence
\* number; each accepted enqueue adds one item whose number is above all
\* numbers given before; each dequeue takes the item it returns out of the
\* heaps and nothing else leaves them; so the depth always moves by the jobs
\* accepted minus the jobs returned.
C38_NoLossNoDuplication ==
    /\ [](/\ ready_heap \cap scheduled_heap = {}
          /\ \A i, j \in Queued : i.seq = j.seq => i = j
          /\ \A i \in Queued : i.seq \in 1 .. seq_counter
          /\ depth = Cardinality(Queued))
    /\ [][/\ Cardinality(AcceptedNow) = seq_counter' - seq_counter
          /\ ReturnedNow \subseteq Queued
          /\ Cardinality(ReturnedNow) <= 1
          /\ Queued' = (Queued \cup AcceptedNow) \ ReturnedNow
          /\ depth' = depth + (seq_counter' - seq_counter)
                        - Cardinality(ReturnedNow)]_vars

\* a consumer was handed the second of two accepted jobs while the first
\* stays queued
C38_Witness ==
    /\ seq_counter = 2
    /\ depth = 1
    /\ \E c \in Consumers : cons[c].returned /\ cons[c].item.seq = 2

====
